---- MODULE Spec2Model ----
(***************************************************************************)
(* Model of the web-compressor repository: the extension's background      *)
(* service worker (toggle state, declarativeNetRequest rules, client       *)
(* cache), the backend server (POST /api/optimize, GET /optimize,          *)
(* GET /api/pagespeed and their cache) and the backend HTML optimizer.     *)
(*                                                                         *)
(* JavaScript values that may be undefined are modelled as the strings     *)
(* "true", "false" and "undefined".                                        *)
(***************************************************************************)
EXTENDS Integers, Sequences, FiniteSets, TLC

\* Number of background message handlers that may be in flight together.
MaxHandlers == 2

T == "true"
F == "false"
U == "undefined"
JsBool == {T, F}
JsOptBool == {T, F, U}

\* !x for a value that is a boolean or undefined
JsNot(x) == IF x = T THEN F ELSE T
\* !!x
JsTruthy(x) == IF x = T THEN T ELSE F
\* x !== false
JsNotFalse(x) == IF x # F THEN T ELSE F

VARIABLES
    extensionEnabled,   \* chrome.storage.local[extensionEnabled]
    cssRemovalEnabled,  \* chrome.storage.local[cssRemovalEnabled]
    dynamicRules,       \* the declarativeNetRequest dynamic rules installed
    bg,                 \* the toggle/setState message handlers in flight
    optimizationCache,  \* chrome.storage.local[optimizationCache]: key -> entry
    now,                \* Date.now() of the background worker, in ms
    ch,                 \* the getCachedData/setCachedData handlers in flight
    cacheMsgs,          \* cache messages received so far
    lastWrite,          \* history: per key, the setCachedData last applied to it
    reply,              \* the response a cache handler sent in the last step, if any
    htmlCache,          \* backend: htmlCache (NodeCache, stdTTL 600)
    metricsCache,       \* backend: metricsCache (NodeCache, stdTTL 3600)
    clock,              \* backend: Date.now(), in ms
    req,                \* backend: the requests in flight
    reqCount,           \* backend: requests received so far
    resp,               \* backend: the response sent in the last step, if any
    lastSet,            \* history: per htmlCache key, what the last set put there
    job,                \* backend: one run of optimizeHTML and calculateMetrics
    calc,               \* one Metrics record being calculated, stored and displayed
    page,               \* content script: the document and the CSS stash
    script,             \* content script of the active tab and the background's baseline and metrics stores
    snap,               \* buildLightSnapshot: the document's title and text and the builds made
    perf                \* measurePerformance: the counters over the resource entries seen so far

toggleVars == <<extensionEnabled, cssRemovalEnabled, dynamicRules, bg>>
cacheVars == <<optimizationCache, now, ch, cacheMsgs, lastWrite, reply>>
serverVars == <<htmlCache, metricsCache, clock, req, reqCount, resp, lastSet>>
vars == <<toggleVars, cacheVars, serverVars, job, calc, page, script, snap, perf>>
\* What the handlers of one component leave alone.
nonToggleVars == <<cacheVars, serverVars, job, calc, page, script, snap, perf>>
nonCacheVars == <<toggleVars, serverVars, job, calc, page, script, snap, perf>>
nonServerVars == <<toggleVars, cacheVars, job, calc, page, script, snap, perf>>
nonJobVars == <<toggleVars, cacheVars, serverVars, calc, page, script, snap, perf>>
nonCalcVars == <<toggleVars, cacheVars, serverVars, job, page, script, snap, perf>>
nonPageVars == <<toggleVars, cacheVars, serverVars, job, calc, script, snap, perf>>
nonTabVars == <<toggleVars, cacheVars, serverVars, job, calc, page, snap, perf>>
nonSnapVars == <<toggleVars, cacheVars, serverVars, job, calc, page, script, perf>>
nonPerfVars == <<toggleVars, cacheVars, serverVars, job, calc, page, script, snap>>

Slots == 1..MaxHandlers

DNR_RULE_IDS ==
    [IMAGES |-> 1001, MEDIA |-> 1002, FONTS |-> 1003, STYLES |-> 1004, SCRIPTS |-> 1005]

AllRuleIds == {DNR_RULE_IDS[k] : k \in DOMAIN DNR_RULE_IDS}

ExcludedHosts == {"localhost", "127.0.0.1"}

\* A plausible slip: the address 127.0.0.1 is forgotten.
BlockRuleLocalhostOnly(id, type) ==
    [id |-> id, priority |-> 1, action |-> "block",
     resourceTypes |-> {type}, excludedRequestDomains |-> {"localhost"}]

BlockRule(id, type) ==
    [id |-> id, priority |-> 1, action |-> "block",
     resourceTypes |-> {type}, excludedRequestDomains |-> ExcludedHosts]

\* A plausible slip: the stylesheet rule is added in CSS-removal mode but the
\* script rule is forgotten.
AddRulesNoScripts(enabled, css) ==
    IF enabled = T
    THEN {BlockRule(DNR_RULE_IDS.IMAGES, "image"),
          BlockRule(DNR_RULE_IDS.MEDIA, "media"),
          BlockRule(DNR_RULE_IDS.FONTS, "font")}
         \cup (IF css # F THEN {BlockRule(DNR_RULE_IDS.STYLES, "stylesheet")} ELSE {})
    ELSE {}

\* A plausible slip: the stylesheet and script rules are added whatever the
\* CSS-removal flag says.
AddRulesAlwaysCss(enabled, css) ==
    IF enabled = T
    THEN {BlockRule(DNR_RULE_IDS.IMAGES, "image"),
          BlockRule(DNR_RULE_IDS.MEDIA, "media"),
          BlockRule(DNR_RULE_IDS.FONTS, "font"),
          BlockRule(DNR_RULE_IDS.STYLES, "stylesheet"),
          BlockRule(DNR_RULE_IDS.SCRIPTS, "script")}
    ELSE {}

\* updateDnrRules: the addRules array built from the state passed in.
AddRules(enabled, css) ==
    IF enabled = T
    THEN {BlockRule(DNR_RULE_IDS.IMAGES, "image"),
          BlockRule(DNR_RULE_IDS.MEDIA, "media"),
          BlockRule(DNR_RULE_IDS.FONTS, "font")}
         \cup (IF css # F
               THEN {BlockRule(DNR_RULE_IDS.STYLES, "stylesheet"),
                     BlockRule(DNR_RULE_IDS.SCRIPTS, "script")}
               ELSE {})
    ELSE {}

\* chrome.declarativeNetRequest.updateDynamicRules({removeRuleIds, addRules}):
\* one call, applied as a whole.
UpdateDynamicRules(rules, removeRuleIds, addRules) ==
    {r \in rules : r.id \notin removeRuleIds} \cup addRules

NoState == [extensionEnabled |-> U, cssRemovalEnabled |-> U]

IdleHandler ==
    [action |-> "none", pc |-> "idle", result |-> NoState, state |-> NoState,
     dnr |-> "none", sent |-> FALSE]

\* chrome.runtime.onInstalled: the default toggle state is written.
OnInstalled ==
    /\ extensionEnabled' = F
    /\ cssRemovalEnabled' = T
    /\ UNCHANGED <<dynamicRules, bg>>
    /\ UNCHANGED nonToggleVars

\* A message is taken by the first idle handler: handlers differ in name only.
FreeSlot(h) == bg[h].pc = "idle" /\ \A g \in Slots : g < h => bg[g].pc # "idle"

\* onMessage 'setState': the booleans of the request are written to storage.
RecvSetState(h, e, c) ==
    /\ FreeSlot(h)
    /\ extensionEnabled' = IF e \in JsBool THEN e ELSE extensionEnabled
    /\ cssRemovalEnabled' = IF c \in JsBool THEN c ELSE cssRemovalEnabled
    /\ bg' = [bg EXCEPT ![h] = [IdleHandler EXCEPT !.action = "setState", !.pc = "set_done"]]
    /\ UNCHANGED dynamicRules
    /\ UNCHANGED nonToggleVars

\* onMessage 'toggleExtension': storage.get([extensionEnabled]) is issued.
RecvToggleExtension(h) ==
    /\ FreeSlot(h)
    /\ bg' = [bg EXCEPT ![h] =
                [IdleHandler EXCEPT !.action = "toggleExtension", !.pc = "get_done",
                                    !.result = [NoState EXCEPT !.extensionEnabled = extensionEnabled]]]
    /\ UNCHANGED <<extensionEnabled, cssRemovalEnabled, dynamicRules>>
    /\ UNCHANGED nonToggleVars

\* onMessage 'toggleCSSRemoval': storage.get([cssRemovalEnabled, extensionEnabled]).
RecvToggleCSSRemoval(h) ==
    /\ FreeSlot(h)
    /\ bg' = [bg EXCEPT ![h] =
                [IdleHandler EXCEPT !.action = "toggleCSSRemoval", !.pc = "get_done",
                                    !.result = [extensionEnabled |-> extensionEnabled,
                                                cssRemovalEnabled |-> cssRemovalEnabled]]]
    /\ UNCHANGED <<extensionEnabled, cssRemovalEnabled, dynamicRules>>
    /\ UNCHANGED nonToggleVars

\* A plausible slip: the callback writes the inverted flag alone, as the
\* earlier background script did, and never turns CSS removal on.
ToggleExtensionFlagOnly(h) ==
    /\ bg[h].action = "toggleExtension"
    /\ bg[h].pc = "get_done"
    /\ extensionEnabled' = JsNot(bg[h].result.extensionEnabled)
    /\ bg' = [bg EXCEPT ![h].pc = "set_done", ![h].result = NoState]
    /\ UNCHANGED <<cssRemovalEnabled, dynamicRules>>
    /\ UNCHANGED nonToggleVars

\* toggleExtension, the get callback: the flag read is inverted and written;
\* turning ON also writes cssRemovalEnabled = true.
ToggleExtensionCallback(h) ==
    /\ bg[h].action = "toggleExtension"
    /\ bg[h].pc = "get_done"
    /\ LET enabled == JsNot(bg[h].result.extensionEnabled)
       IN /\ extensionEnabled' = enabled
          /\ cssRemovalEnabled' = IF enabled = T THEN T ELSE cssRemovalEnabled
    /\ bg' = [bg EXCEPT ![h].pc = "set_done", ![h].result = NoState]
    /\ UNCHANGED dynamicRules
    /\ UNCHANGED nonToggleVars

\* toggleCSSRemoval, the get callback: the new CSS flag is written, and the
\* state handed on is built from the values read before the write.
ToggleCSSRemovalCallback(h) ==
    /\ bg[h].action = "toggleCSSRemoval"
    /\ bg[h].pc = "get_done"
    /\ LET newCss == JsNot(JsNotFalse(bg[h].result.cssRemovalEnabled))
       IN /\ cssRemovalEnabled' = newCss
          /\ bg' = [bg EXCEPT ![h].pc = "have_state", ![h].result = NoState,
                              ![h].state = [extensionEnabled |-> JsTruthy(bg[h].result.extensionEnabled),
                                            cssRemovalEnabled |-> newCss]]
    /\ UNCHANGED <<extensionEnabled, dynamicRules>>
    /\ UNCHANGED nonToggleVars

\* setState and toggleExtension, after the write: both flags are read back.
ReadMerged(h) ==
    /\ bg[h].action \in {"setState", "toggleExtension"}
    /\ bg[h].pc = "set_done"
    /\ bg' = [bg EXCEPT ![h].pc = "have_state",
                        ![h].state = [extensionEnabled |-> JsTruthy(extensionEnabled),
                                      cssRemovalEnabled |-> JsNotFalse(cssRemovalEnabled)]]
    /\ UNCHANGED <<extensionEnabled, cssRemovalEnabled, dynamicRules>>
    /\ UNCHANGED nonToggleVars

\* updateDnrRules(state): every rule id of the extension is removed and the
\* rules of the state are added in one updateDynamicRules call; a rejected
\* call is caught and leaves the installed rules as they were.
UpdateDnrRules(h, ok) ==
    /\ bg[h].pc = "have_state"
    /\ dynamicRules' =
          IF ok
          THEN UpdateDynamicRules(dynamicRules, AllRuleIds,
                                  AddRules(bg[h].state.extensionEnabled,
                                           bg[h].state.cssRemovalEnabled))
          ELSE dynamicRules
    /\ bg' = [bg EXCEPT ![h].pc = "dnr_done", ![h].dnr = IF ok THEN "applied" ELSE "failed"]
    /\ UNCHANGED <<extensionEnabled, cssRemovalEnabled>>
    /\ UNCHANGED nonToggleVars

\* broadcastStateToActiveTab(state): applyState is sent when there is an
\* active tab; a missing tab or content script is ignored.
BroadcastState(h, tab) ==
    /\ bg[h].pc = "dnr_done"
    /\ bg' = [bg EXCEPT ![h].pc = "broadcast_done", ![h].sent = tab,
                        ![h].state = NoState, ![h].dnr = "none"]
    /\ UNCHANGED <<extensionEnabled, cssRemovalEnabled, dynamicRules>>
    /\ UNCHANGED nonToggleVars

\* A plausible slip: sendResponse is called once the rules are updated,
\* before the notification to the tab.
SendResponseBeforeBroadcast(h) ==
    /\ bg[h].pc = "dnr_done"
    /\ bg' = [bg EXCEPT ![h] = IdleHandler]
    /\ UNCHANGED <<extensionEnabled, cssRemovalEnabled, dynamicRules>>
    /\ UNCHANGED nonToggleVars

\* sendResponse: the handler is finished.
SendResponse(h) ==
    /\ bg[h].pc = "broadcast_done"
    /\ bg' = [bg EXCEPT ![h] = IdleHandler]
    /\ UNCHANGED <<extensionEnabled, cssRemovalEnabled, dynamicRules>>
    /\ UNCHANGED nonToggleVars

ToggleInit ==
    /\ extensionEnabled = F
    /\ cssRemovalEnabled = T
    /\ dynamicRules = {}
    /\ bg = [h \in Slots |-> IdleHandler]

ToggleNext ==
    \/ OnInstalled
    \/ \E h \in Slots, e \in JsOptBool, c \in JsOptBool : RecvSetState(h, e, c)
    \/ \E h \in Slots : RecvToggleExtension(h)
    \/ \E h \in Slots : RecvToggleCSSRemoval(h)
    \/ \E h \in Slots : ToggleExtensionCallback(h)
    \/ \E h \in Slots : ToggleCSSRemovalCallback(h)
    \/ \E h \in Slots : ReadMerged(h)
    \/ \E h \in Slots, ok \in BOOLEAN : UpdateDnrRules(h, ok)
    \/ \E h \in Slots, tab \in BOOLEAN : BroadcastState(h, tab)
    \/ \E h \in Slots : SendResponse(h)


\* The resource types the installed rules block.
BlockedTypes(rules) == UNION {r.resourceTypes : r \in {x \in rules : x.action = "block"}}

HeavyTypes == {"image", "media", "font"}
TextModeTypes == HeavyTypes \cup {"stylesheet", "script"}

\* C1: the rule set an applied updateDnrRules installs is a function of the
\* state it was given alone: none when extensionEnabled is false; image,
\* media and font rules when it is true, and stylesheet and script rules
\* too exactly when cssRemovalEnabled is true.
C1_RulesFunctionOfState ==
    [][\A h \in Slots :
         (bg[h].pc = "have_state" /\ bg'[h].pc = "dnr_done" /\ bg'[h].dnr = "applied")
            => LET st == bg[h].state
               IN /\ st.extensionEnabled \in JsBool /\ st.cssRemovalEnabled \in JsBool
                  /\ st.extensionEnabled = F => dynamicRules' = {}
                  /\ st.extensionEnabled = T =>
                        /\ Cardinality(dynamicRules') = Cardinality(BlockedTypes(dynamicRules'))
                        /\ BlockedTypes(dynamicRules') =
                              HeavyTypes \cup (IF st.cssRemovalEnabled = T
                                               THEN {"stylesheet", "script"} ELSE {})]_vars

\* An update for the state (enabled, CSS removal off) has been applied over
\* the full text-mode set and left exactly the three heavy-resource rules.
C1_Witness ==
    \E h \in Slots :
        /\ bg[h].pc = "dnr_done" /\ bg[h].dnr = "applied"
        /\ bg[h].state = [extensionEnabled |-> T, cssRemovalEnabled |-> F]
        /\ BlockedTypes(dynamicRules) = HeavyTypes
        /\ \E g \in Slots : g # h /\ bg[g].pc = "dnr_done" /\ bg[g].dnr = "applied"
                              /\ bg[g].state.cssRemovalEnabled = T

\* The hosts and resource types of the requests a page may make.
RequestHosts == {"localhost", "127.0.0.1", "a.test"}
RequestTypes == {"main_frame", "image", "media", "font", "stylesheet", "script"}

\* declarativeNetRequest: a block rule applies to a request of one of its
\* resource types unless the request's host is among its excluded domains.
Blocks(rule, host, type) ==
    /\ rule.action = "block"
    /\ type \in rule.resourceTypes
    /\ host \notin rule.excludedRequestDomains

\* C22: in every reachable state every installed rule excludes localhost
\* and 127.0.0.1, so no installed rule blocks a request to either host,
\* whatever its resource type.
C22_OwnHostsExempt ==
    \A rule \in dynamicRules :
        /\ {"localhost", "127.0.0.1"} \subseteq rule.excludedRequestDomains
        /\ \A host \in {"localhost", "127.0.0.1"}, type \in RequestTypes :
              ~Blocks(rule, host, type)

\* The text-mode rules are installed: images and scripts of another host
\* are blocked, those of localhost and 127.0.0.1 are not.
C22_Witness ==
    /\ Cardinality(dynamicRules) = 5
    /\ \E rule \in dynamicRules : Blocks(rule, "a.test", "image")
    /\ \E rule \in dynamicRules : Blocks(rule, "a.test", "script")
    /\ \A rule \in dynamicRules : ~Blocks(rule, "127.0.0.1", "script")

\* C2: in every reachable state, handlers in progress or not, the installed
\* rules block exactly one of the three complete sets of resource types.
C2_RuleSetsComplete ==
    /\ BlockedTypes(dynamicRules) \in {{}, HeavyTypes, TextModeTypes}
    /\ \A r \in dynamicRules : r.action = "block" /\ r.id \in AllRuleIds

\* The text-mode set is installed while a handler that will replace it with
\* the empty set has not yet called updateDnrRules.
C2_Witness ==
    /\ BlockedTypes(dynamicRules) = TextModeTypes
    /\ \E h \in Slots : bg[h].pc = "have_state" /\ bg[h].state.extensionEnabled = F

NoHandlerInFlight == \A h \in Slots : bg[h].pc = "idle"

\* C26, for an event that starts and ends with no handler in flight: if
\* the installed rules are the rules of the stored toggle state before it,
\* they are the rules of the stored toggle state after it, and with
\* extensionEnabled = false stored no rule is installed.
C26_RulesMatchStoredState ==
    [][(/\ NoHandlerInFlight
        /\ NoHandlerInFlight'
        /\ dynamicRules = AddRules(extensionEnabled, cssRemovalEnabled)) =>
            /\ dynamicRules' = AddRules(extensionEnabled', cssRemovalEnabled')
            /\ extensionEnabled' = F => dynamicRules' = {}]_vars

\* The toggle messages handled as they come, their handlers overlapping;
\* every updateDynamicRules call succeeds.
OverlappingToggleNext ==
    \/ \E h \in Slots, e \in JsOptBool, c \in JsOptBool : RecvSetState(h, e, c)
    \/ \E h \in Slots : RecvToggleExtension(h)
    \/ \E h \in Slots : RecvToggleCSSRemoval(h)
    \/ \E h \in Slots : ToggleExtensionCallback(h)
    \/ \E h \in Slots : ToggleCSSRemovalCallback(h)
    \/ \E h \in Slots : ReadMerged(h)
    \/ \E h \in Slots : UpdateDnrRules(h, TRUE)
    \/ \E h \in Slots, tab \in BOOLEAN : BroadcastState(h, tab)
    \/ \E h \in Slots : SendResponse(h)

\* C27: once every handler has completed, the installed rules are the
\* rules of the toggle state held in storage.
C27_RulesMatchAfterOverlap ==
    NoHandlerInFlight => dynamicRules = AddRules(extensionEnabled, cssRemovalEnabled)

(***************************************************************************)
(* The client cache of the background worker.                              *)
(***************************************************************************)

\* Number of cache handlers that may be in flight together.
MaxCacheHandlers == 2
\* Number of cache messages a behaviour receives.
MaxCacheMsgs == 2

CSlots == 1..MaxCacheHandlers
Urls == {"u1", "u2"}
\* The clock readings a behaviour passes through: the start, and 599 s, 600 s
\* and 601 s after it.
ClockReadings == {1000, 600000, 601000, 602000}

\* A plausible slip: the TTL given in seconds where Date.now() counts ms.
CACHE_TTL_Seconds == 10 * 60

\* Cache TTL: 10 minutes
CACHE_TTL == 10 * 60 * 1000

\* cacheKey(url, cssRemovalEnabled): url + '_css_' + ('1' or '0'); the suffix
\* has a fixed length, so the key is the pair.
cacheKey(url, css) == <<url, IF css = T THEN "1" ELSE "0">>

CacheKeys == Urls \X {"0", "1"}

NoEntry == [data |-> 0, timestamp |-> 0]
Null == 0
NoSnapshot == [k \in CacheKeys |-> NoEntry]
NoWrite == [mode |-> U, data |-> 0]
NoSeen == [b \in {"0", "1"} |-> NoWrite]

IdleCacheHandler ==
    [action |-> "none", pc |-> "idle", url |-> "u1", mode |-> U, data |-> 0,
     key |-> <<"u1", "0">>, cache |-> NoSnapshot, seen |-> NoSeen]

NoReply == [action |-> "none", data |-> Null]

\* A message is taken by the first free handler: handlers differ in name only.
FreeCacheSlot(h) == ch[h].pc = "idle" /\ \A g \in CSlots : g < h => ch[g].pc # "idle"

\* cache[key] && cache[key].timestamp
HasEntry(cache, key) == cache[key] # NoEntry /\ cache[key].timestamp # 0

\* onMessage 'getCachedData' -> getCachedData(url, cssRemovalEnabled): the
\* key is built and storage.get([optimizationCache]) is issued.
RecvGetCachedData(h, url, mode) ==
    /\ FreeCacheSlot(h)
    /\ cacheMsgs < MaxCacheMsgs
    /\ cacheMsgs' = cacheMsgs + 1
    /\ ch' = [ch EXCEPT ![h] =
                [IdleCacheHandler EXCEPT
                    !.action = "get", !.pc = "get_done", !.url = url, !.mode = mode,
                    !.key = cacheKey(url, mode),
                    !.cache = optimizationCache,
                    !.seen = [b \in {"0", "1"} |-> lastWrite[<<url, b>>]]]]
    /\ reply' = NoReply
    /\ UNCHANGED <<optimizationCache, now, lastWrite>>
    /\ UNCHANGED nonCacheVars

\* getCachedData after the read: a fresh entry's data is returned and the
\* response sent; an expired entry is deleted from the map read and the map
\* is written back; otherwise null is returned.
GetCachedDataCallback(h) ==
    /\ ch[h].action = "get"
    /\ ch[h].pc = "get_done"
    /\ LET cache == ch[h].cache
           key == ch[h].key
       IN IF HasEntry(cache, key)
          THEN IF now - cache[key].timestamp < CACHE_TTL
               THEN /\ ch' = [ch EXCEPT ![h] = IdleCacheHandler]
                    /\ reply' = [action |-> "get", data |-> cache[key].data]
                    /\ UNCHANGED optimizationCache
               ELSE /\ optimizationCache' = [cache EXCEPT ![key] = NoEntry]
                    /\ ch' = [ch EXCEPT ![h].pc = "evict_done",
                                        ![h].cache = [cache EXCEPT ![key] = NoEntry],
                                        ![h].seen = NoSeen]
                    /\ reply' = NoReply
          ELSE /\ ch' = [ch EXCEPT ![h] = IdleCacheHandler]
               /\ reply' = [action |-> "get", data |-> Null]
               /\ UNCHANGED optimizationCache
    /\ UNCHANGED <<now, cacheMsgs, lastWrite>>
    /\ UNCHANGED nonCacheVars

\* getCachedData after the write-back of an eviction: null is returned.
GetCachedDataEvicted(h) ==
    /\ ch[h].action = "get"
    /\ ch[h].pc = "evict_done"
    /\ ch' = [ch EXCEPT ![h] = IdleCacheHandler]
    /\ reply' = [action |-> "get", data |-> Null]
    /\ UNCHANGED <<optimizationCache, now, cacheMsgs, lastWrite>>
    /\ UNCHANGED nonCacheVars

\* onMessage 'setCachedData' -> setCachedData(url, data, cssRemovalEnabled):
\* the key is built with (cssRemovalEnabled !== false) and the map is read.
RecvSetCachedData(h, url, mode) ==
    /\ FreeCacheSlot(h)
    /\ cacheMsgs < MaxCacheMsgs
    /\ cacheMsgs' = cacheMsgs + 1
    /\ ch' = [ch EXCEPT ![h] =
                [IdleCacheHandler EXCEPT
                    !.action = "set", !.pc = "get_done", !.url = url, !.mode = mode,
                    !.data = cacheMsgs + 1,
                    !.key = cacheKey(url, JsNotFalse(mode)),
                    !.cache = optimizationCache]]
    /\ reply' = NoReply
    /\ UNCHANGED <<optimizationCache, now, lastWrite>>
    /\ UNCHANGED nonCacheVars

\* setCachedData after the read: the entry {data, timestamp: Date.now()} is
\* put into the map read and the map is written back.
SetCachedDataCallback(h) ==
    /\ ch[h].action = "set"
    /\ ch[h].pc = "get_done"
    /\ optimizationCache' =
          [ch[h].cache EXCEPT ![ch[h].key] = [data |-> ch[h].data, timestamp |-> now]]
    /\ lastWrite' = [lastWrite EXCEPT ![ch[h].key] =
                        [mode |-> ch[h].mode, data |-> ch[h].data]]
    /\ ch' = [ch EXCEPT ![h].pc = "set_done", ![h].cache = NoSnapshot]
    /\ reply' = NoReply
    /\ UNCHANGED <<now, cacheMsgs>>
    /\ UNCHANGED nonCacheVars

\* setCachedData after the write: sendResponse({success: true}).
SetCachedDataDone(h) ==
    /\ ch[h].action = "set"
    /\ ch[h].pc = "set_done"
    /\ ch' = [ch EXCEPT ![h] = IdleCacheHandler]
    /\ reply' = [action |-> "set", data |-> Null]
    /\ UNCHANGED <<optimizationCache, now, cacheMsgs, lastWrite>>
    /\ UNCHANGED nonCacheVars

\* Time passes.
Tick(t) ==
    /\ t > now
    /\ now' = t
    /\ reply' = NoReply
    /\ UNCHANGED <<optimizationCache, ch, cacheMsgs, lastWrite>>
    /\ UNCHANGED nonCacheVars

CacheInit ==
    /\ optimizationCache = NoSnapshot
    /\ now = 1000
    /\ ch = [h \in CSlots |-> IdleCacheHandler]
    /\ cacheMsgs = 0
    /\ lastWrite = [k \in CacheKeys |-> NoWrite]
    /\ reply = NoReply

CacheNext ==
    \/ \E h \in CSlots, url \in Urls, mode \in JsOptBool : RecvGetCachedData(h, url, mode)
    \/ \E h \in CSlots : GetCachedDataCallback(h)
    \/ \E h \in CSlots : GetCachedDataEvicted(h)
    \/ \E h \in CSlots, url \in Urls, mode \in JsOptBool : RecvSetCachedData(h, url, mode)
    \/ \E h \in CSlots : SetCachedDataCallback(h)
    \/ \E h \in CSlots : SetCachedDataDone(h)
    \/ \E t \in ClockReadings : Tick(t)

GetReplies(h) == ch[h].action = "get" /\ ch[h].pc = "get_done" /\ ch'[h].pc = "idle"

\* C3 as stated: a lookup that finds, within the TTL, the entry a
\* setCachedData(u, data, m) wrote returns that data if and only if its own
\* CSS mode m' equals m, for m and m' among true, false and absent.
C3_LookupHitsIffSameMode ==
    [][\A h \in CSlots :
         GetReplies(h) =>
            \A b \in {"0", "1"} :
               LET e == ch[h].cache[<<ch[h].url, b>>]
                   w == ch[h].seen[b]
               IN (e # NoEntry /\ w.data = e.data /\ now - e.timestamp < 600000)
                     => ((reply'.data = e.data) <=> (ch[h].mode = w.mode))]_vars

\* C4: an entry written at time t carries t; a lookup that reads it earlier
\* than t + 600 s returns its data, and a lookup that reads it later than
\* t + 600 s returns null and removes it from the stored map.
C4_TtlEnforcedAtRead ==
    [][\A h \in CSlots :
         LET key == ch[h].key
             e == ch[h].cache[key]
         IN /\ (ch[h].action = "set" /\ ch[h].pc = "get_done" /\ ch'[h].pc # "get_done")
                  => optimizationCache'[key] = [data |-> ch[h].data, timestamp |-> now]
            /\ (ch[h].action = "get" /\ ch[h].pc = "get_done" /\ ch'[h].pc # "get_done"
                   /\ e # NoEntry)
                  => /\ now < e.timestamp + 600000
                          => /\ reply' = [action |-> "get", data |-> e.data]
                             /\ ch'[h].pc = "idle"
                     /\ now > e.timestamp + 600000
                          => /\ optimizationCache'[key] = NoEntry
                             /\ reply' = NoReply
                             /\ ch'[h].pc = "evict_done"
            /\ (ch[h].pc = "evict_done" /\ ch'[h].pc # "evict_done")
                  => reply' = [action |-> "get", data |-> Null]]_vars

\* A lookup made 601 s after the start has found the entry written at the
\* start expired and has removed it from the stored map.
C4_Witness ==
    \E h \in CSlots :
        /\ ch[h].action = "get" /\ ch[h].pc = "evict_done"
        /\ now = 602000
        /\ lastWrite[ch[h].key].data # 0
        /\ optimizationCache[ch[h].key] = NoEntry

\* C28: writes to the cache map are never lost. When a setCachedData, or a
\* getCachedData that found its entry expired, writes the map back, every
\* entry that storage holds under another key stays as it is.
C28_WritesNeverLost ==
    [][\A h \in CSlots :
         (ch[h].pc = "get_done" /\ ch'[h].pc \in {"set_done", "evict_done"}) =>
            \A k \in CacheKeys \ {ch[h].key} :
               optimizationCache[k] # NoEntry => optimizationCache'[k] = optimizationCache[k]]_vars

(***************************************************************************)
(* The backend server.                                                     *)
(***************************************************************************)

\* Number of backend requests that may be in flight together.
MaxRequests == 2
\* Number of backend requests a behaviour receives.
MaxReqCount == 3

\* The url values a request may carry: none, the empty string, a string that is no absolute
\* URL, and one absolute URL in two spellings, one of them not normalised.
RawUrls == {U, "", "not a url", "https://a.test", "https://a.test/"}

\* new URL(url).href; "invalid" where the constructor throws.
UrlHref(url) ==
    CASE url = "https://a.test" -> "https://a.test/"
      [] url = "https://a.test/" -> "https://a.test/"
      [] OTHER -> "invalid"

Hrefs == {"https://a.test/"}

\* !url: no url, or the empty string.
JsFalsy(url) == url \in {U, ""}

\* The option sets a POST body may carry (a missing option defaults to true).
AllTrue == [removeCSS |-> T, removeImages |-> T, removeVideos |-> T, removeFonts |-> T]
KeepCss == [removeCSS |-> F, removeImages |-> T, removeVideos |-> T, removeFonts |-> T]
OptionSets == {AllTrue, KeepCss}

\* `${targetUrl.href}_${removeCSS}_${removeImages}_${removeVideos}_${removeFonts}`
serverCacheKey(href, opts) ==
    <<href, opts.removeCSS, opts.removeImages, opts.removeVideos, opts.removeFonts>>

ServerKeys == {serverCacheKey(h, o) : h \in Hrefs, o \in OptionSets}

\* axios.get's timeout option, in ms.
FETCH_TIMEOUT == 30000

\* How an upstream fetch may end: a response below 500 with or without a
\* body, a response of 500 or more with or without a body, no response
\* (connection refused, reset), no response within the timeout, or a
\* request that could not be set up.
FetchOutcomes ==
    {"ok_body", "ok_empty", "err_body", "err_empty", "no_response", "timeout", "setup_error"}

\* A plausible slip: what has arrived when the timeout strikes is handed on.
FetchResultPartialOnTimeout(outcome, n) ==
    CASE outcome \in {"ok_body", "err_body", "timeout"} -> [throws |-> FALSE, doc |-> n]
      [] outcome \in {"ok_empty", "err_empty"} -> [throws |-> FALSE, doc |-> 0]
      [] OTHER -> [throws |-> TRUE, doc |-> 0]

\* fetchWebsite: the document handed on, or "throws". A response of 500 or
\* more rejects in axios and is returned as a fetch of its body; the body
\* of fetch number n is document n, an empty body is document 0.
FetchResult(outcome, n) ==
    CASE outcome = "ok_body" -> [throws |-> FALSE, doc |-> n]
      [] outcome = "ok_empty" -> [throws |-> FALSE, doc |-> 0]
      [] outcome = "err_body" -> [throws |-> FALSE, doc |-> n]
      [] outcome = "err_empty" -> [throws |-> FALSE, doc |-> 0]
      [] OTHER -> [throws |-> TRUE, doc |-> 0]

\* optimizeHTML(html, opts).html and calculateMetrics(...) of a fetched
\* document, kept symbolic here; the optimizer itself is modelled below.
OptimizedHtml(doc, opts) == [doc |-> doc, opts |-> opts]
CalculatedMetrics(doc, opts) == [kind |-> "calculated", doc |-> doc, opts |-> opts]
EmptyMetrics == [kind |-> "empty", doc |-> 0, opts |-> AllTrue]

NoValue == [html |-> OptimizedHtml(0, AllTrue), metrics |-> EmptyMetrics]
NoCached == [v |-> NoValue, t |-> 0]

\* A plausible slip: set merges into the entry already there (a new empty
\* metrics object keeps the old metrics) and keeps its expiry.
HtmlCacheSetMerging(cache, key, val, t) ==
    IF cache[key] = NoCached
    THEN [cache EXCEPT ![key] = [v |-> val, t |-> t + 600 * 1000]]
    ELSE [cache EXCEPT ![key] =
            [v |-> [html |-> val.html,
                    metrics |-> IF val.metrics = EmptyMetrics
                                THEN cache[key].v.metrics ELSE val.metrics],
             t |-> cache[key].t]]

\* htmlCache.set(key, val): the entry is replaced and lives stdTTL = 600 s.
HtmlCacheSet(cache, key, val, t) ==
    [cache EXCEPT ![key] = [v |-> val, t |-> t + 600 * 1000]]

\* htmlCache.get(key): the value, unless there is none or it has expired.
HtmlCacheHas(cache, key, t) == cache[key] # NoCached /\ ~(cache[key].t < t)

NoMetrics == [v |-> EmptyMetrics, t |-> 0]

\* metricsCache.set(href, metrics): stdTTL = 3600 s.
MetricsCacheSet(cache, href, m, t) == [cache EXCEPT ![href] = [v |-> m, t |-> t + 3600 * 1000]]

IdleRequest ==
    [endpoint |-> "none", pc |-> "idle", id |-> 0, url |-> U, href |-> "invalid",
     opts |-> AllTrue, lookups |-> 0, started |-> 0]

\* upstream is how the fetch made for the request ended, if one was made.
NoResp ==
    [endpoint |-> "none", id |-> 0, url |-> U, opts |-> AllTrue, status |-> 0,
     cached |-> FALSE, body |-> NoValue, lookups |-> 0, wrote |-> FALSE,
     upstream |-> "none"]

Respond(r, status, cached, body, wrote) ==
    [endpoint |-> r.endpoint, id |-> r.id, url |-> r.url, opts |-> r.opts,
     status |-> status, cached |-> cached, body |-> body, lookups |-> r.lookups, wrote |-> wrote,
     upstream |-> "none"]

\* The server takes a request while fewer than MaxRequests are in flight.
CanReceive == Cardinality(req) < MaxRequests /\ reqCount < MaxReqCount

\* A plausible slip: the cache is consulted, under the raw url, before the
\* url is validated.
EntryLookupFirst(endpoint, url, opts, id) ==
    LET href == UrlHref(url)
        looked == [IdleRequest EXCEPT !.endpoint = endpoint, !.id = id, !.url = url,
                                      !.href = href, !.opts = opts, !.lookups = 1]
    IN IF JsFalsy(url) \/ href = "invalid"
       THEN [looked EXCEPT !.pc = "reject"]
       ELSE IF HtmlCacheHas(htmlCache, serverCacheKey(href, opts), clock)
            THEN [looked EXCEPT !.pc = "hit"]
            ELSE [looked EXCEPT !.pc = "fetching"]

\* A plausible slip: the cache is not consulted, every valid request fetches.
EntryNoLookup(endpoint, url, opts, id) ==
    LET href == UrlHref(url)
        r == [IdleRequest EXCEPT !.endpoint = endpoint, !.id = id, !.url = url,
                                 !.href = href, !.opts = opts]
    IN IF JsFalsy(url) \/ href = "invalid"
       THEN [r EXCEPT !.pc = "reject"]
       ELSE [r EXCEPT !.pc = "fetching"]

\* A plausible slip: GET /optimize does not consult the cache.
EntryGetSkipsCache(endpoint, url, opts, id) ==
    LET href == UrlHref(url)
        r == [IdleRequest EXCEPT !.endpoint = endpoint, !.id = id, !.url = url,
                                 !.href = href, !.opts = opts]
    IN IF JsFalsy(url) \/ href = "invalid"
       THEN [r EXCEPT !.pc = "reject"]
       ELSE IF endpoint = "POST /api/optimize"
               /\ HtmlCacheHas(htmlCache, serverCacheKey(href, opts), clock)
            THEN [r EXCEPT !.pc = "hit", !.lookups = 1]
            ELSE [r EXCEPT !.pc = "fetching", !.lookups = 1]

\* POST /api/optimize and GET /optimize up to the first await: a missing url
\* and a url that new URL rejects are answered 400; then the cache is
\* looked up under the key of href and options; a hit is answered from the
\* cache, a miss calls fetchWebsite.
OptimizeEntry(endpoint, url, opts, id) ==
    LET href == UrlHref(url)
        r == [IdleRequest EXCEPT !.endpoint = endpoint, !.id = id, !.url = url,
                                 !.href = href, !.opts = opts]
    IN IF JsFalsy(url)
       THEN [r EXCEPT !.pc = "reject"]
       ELSE IF href = "invalid"
            THEN [r EXCEPT !.pc = "reject"]
            ELSE IF HtmlCacheHas(htmlCache, serverCacheKey(href, opts), clock)
                 THEN [r EXCEPT !.pc = "hit", !.lookups = 1]
                 ELSE [r EXCEPT !.pc = "fetching", !.lookups = 1]

\* A request arrives at POST /api/optimize (any option set) or GET /optimize
\* (all options true) and runs to its first await or its response.
RecvOptimize(endpoint, url, opts) ==
    /\ CanReceive
    /\ endpoint = "GET /optimize" => opts = AllTrue
    /\ reqCount' = reqCount + 1
    /\ LET r == OptimizeEntry(endpoint, url, opts, reqCount + 1)
       IN CASE r.pc = "reject" ->
                 /\ resp' = Respond(r, 400, FALSE, NoValue, FALSE)
                 /\ UNCHANGED req
            [] r.pc = "hit" ->
                 /\ resp' = Respond(r, 200, TRUE,
                                    htmlCache[serverCacheKey(r.href, r.opts)].v, FALSE)
                 /\ UNCHANGED req
            [] OTHER ->
                 /\ resp' = NoResp
                 /\ req' = req \cup {[r EXCEPT !.started = clock]}
    /\ UNCHANGED <<htmlCache, metricsCache, clock, lastSet>>
    /\ UNCHANGED nonServerVars

\* A plausible slip: a failed fetch caches an empty page for the key.
CompletionCachingFailure(r, outcome) ==
    LET f == FetchResult(outcome, r.id)
        m == IF r.endpoint = "GET /optimize" THEN EmptyMetrics ELSE CalculatedMetrics(f.doc, r.opts)
    IN [status |-> IF f.throws THEN 500 ELSE 200,
        write |-> TRUE,
        value |-> [html |-> OptimizedHtml(f.doc, r.opts), metrics |-> m]]

\* The rest of the handler, from the completion of fetchWebsite: a throw is
\* answered 500 from the catch block; otherwise the document is optimised,
\* the metrics are calculated (POST) or left {} (GET /optimize), and the
\* entry {html, metrics} is to be set.
Completion(r, outcome) ==
    LET f == FetchResult(outcome, r.id)
        m == IF r.endpoint = "GET /optimize" THEN EmptyMetrics ELSE CalculatedMetrics(f.doc, r.opts)
    IN [status |-> IF f.throws THEN 500 ELSE 200,
        write |-> ~f.throws,
        value |-> IF f.throws THEN NoValue
                  ELSE [html |-> OptimizedHtml(f.doc, r.opts), metrics |-> m]]

\* fetchWebsite ends for a request: the handler runs to its response. The
\* fetch ends by timeout when, and only when, FETCH_TIMEOUT has passed
\* since it started.
FetchCompletes(r, outcome) ==
    /\ r.pc = "fetching"
    /\ (outcome = "timeout") <=> (clock - r.started >= FETCH_TIMEOUT)
    /\ LET c == Completion(r, outcome)
           key == serverCacheKey(r.href, r.opts)
       IN /\ htmlCache' = IF c.write THEN HtmlCacheSet(htmlCache, key, c.value, clock)
                          ELSE htmlCache
          /\ lastSet' = IF c.write
                        THEN [lastSet EXCEPT ![key] = [v |-> c.value, at |-> clock,
                                                     sets |-> lastSet[key].sets + 1]]
                        ELSE lastSet
          /\ metricsCache' = IF c.write /\ r.endpoint = "POST /api/optimize"
                             THEN MetricsCacheSet(metricsCache, r.href, c.value.metrics, clock)
                             ELSE metricsCache
          /\ resp' = [Respond(r, c.status, FALSE, c.value, c.write) EXCEPT !.upstream = outcome]
    /\ req' = req \ {r}
    /\ UNCHANGED <<clock, reqCount>>
    /\ UNCHANGED nonServerVars

\* GET /api/pagespeed up to its await: 400 for a missing or invalid url,
\* else runPageSpeed is called.
RecvPageSpeed(url) ==
    /\ CanReceive
    /\ reqCount' = reqCount + 1
    /\ LET r == [IdleRequest EXCEPT !.endpoint = "GET /api/pagespeed", !.id = reqCount + 1,
                                    !.url = url, !.href = UrlHref(url)]
       IN IF JsFalsy(url) \/ r.href = "invalid"
          THEN /\ resp' = Respond(r, 400, FALSE, NoValue, FALSE)
               /\ UNCHANGED req
          ELSE /\ resp' = NoResp
               /\ req' = req \cup {[r EXCEPT !.pc = "pagespeed"]}
    /\ UNCHANGED <<htmlCache, metricsCache, clock, lastSet>>
    /\ UNCHANGED nonServerVars

\* runPageSpeed ends: its result is answered 200, a failure 500.
PageSpeedCompletes(r, ok) ==
    /\ r.pc = "pagespeed"
    /\ resp' = Respond(r, IF ok THEN 200 ELSE 500, FALSE, NoValue, FALSE)
    /\ req' = req \ {r}
    /\ UNCHANGED <<htmlCache, metricsCache, clock, reqCount, lastSet>>
    /\ UNCHANGED nonServerVars

\* The clock readings of the backend: the start, and 601 s later, when an
\* entry set at the start has expired.
ServerClockReadings == {1000, 602000}

ServerTick(t) ==
    /\ t > clock
    /\ clock' = t
    /\ resp' = NoResp
    /\ UNCHANGED <<htmlCache, metricsCache, req, reqCount, lastSet>>
    /\ UNCHANGED nonServerVars

NoSet == [v |-> NoValue, at |-> 0, sets |-> 0]

ServerInit ==
    /\ htmlCache = [k \in ServerKeys |-> NoCached]
    /\ metricsCache = [h \in Hrefs |-> NoMetrics]
    /\ clock = 1000
    /\ req = {}
    /\ reqCount = 0
    /\ resp = NoResp
    /\ lastSet = [k \in ServerKeys |-> NoSet]

ServerNext ==
    \/ \E e \in {"POST /api/optimize", "GET /optimize"},
          url \in RawUrls, opts \in OptionSets : RecvOptimize(e, url, opts)
    \/ \E r \in req, o \in FetchOutcomes : FetchCompletes(r, o)
    \/ \E url \in RawUrls : RecvPageSpeed(url)
    \/ \E r \in req, ok \in BOOLEAN : PageSpeedCompletes(r, ok)
    \/ \E t \in ServerClockReadings : ServerTick(t)

OptimizeEndpoints == {"POST /api/optimize", "GET /optimize"}
RespKey == serverCacheKey(UrlHref(resp.url), resp.opts)

\* C5: put is last-write-wins. Whenever a key of htmlCache has been set,
\* its entry is exactly the value of the latest set (html and metrics, no
\* field of an earlier entry) and expires 600 s after the latest set; and a
\* response served from the cache carries exactly the html and metrics of
\* the latest set of its key, inside the window counted from that set.
C5_LastWriteWins ==
    /\ \A k \in ServerKeys :
         lastSet[k].sets > 0 =>
            htmlCache[k] = [v |-> lastSet[k].v, t |-> lastSet[k].at + 600000]
    /\ resp.cached =>
         /\ lastSet[RespKey].sets > 0
         /\ resp.body = lastSet[RespKey].v
         /\ clock <= lastSet[RespKey].at + 600000

\* Two sets of one key by different kinds of request, then a cached answer.
C5_Witness ==
    /\ resp.cached
    /\ lastSet[RespKey].sets = 2
    /\ resp.body.metrics = EmptyMetrics
    /\ lastSet[RespKey].at = 602000

\* C6: a failed request never writes the shared cache. A step in which
\* POST /api/optimize or GET /optimize answers 400 or 500 leaves htmlCache
\* and metricsCache as they were, and so does every earlier step of such a
\* request: a step of an optimize request changes the caches only when it
\* answers 200.
C6_FailedRequestsWriteNothing ==
    [][/\ (resp'.status \in {400, 500} /\ resp'.endpoint \in OptimizeEndpoints) =>
            htmlCache' = htmlCache /\ metricsCache' = metricsCache
       /\ \A r \in (req \ req') \cup (req' \ req) :
            (r.endpoint \in OptimizeEndpoints /\ resp'.status # 200) =>
               htmlCache' = htmlCache /\ metricsCache' = metricsCache]_vars

\* A fetch failed (500) while the key of the request holds an entry.
C6_Witness ==
    /\ resp.status = 500
    /\ resp.endpoint \in OptimizeEndpoints
    /\ htmlCache[RespKey] # NoCached
    /\ lastSet[RespKey].sets = 1

\* C7: a request whose url is missing or does not parse is answered 400 in
\* the step that receives it, with no cache lookup made, no fetch, PageSpeed
\* run or optimisation started and the caches untouched, on all three
\* endpoints; a request that goes further has a url that parses.
C7_InvalidUrlRejectedFirst ==
    [][/\ resp'.status = 400 =>
            /\ reqCount' = reqCount + 1
            /\ resp'.id = reqCount'
            /\ JsFalsy(resp'.url) \/ UrlHref(resp'.url) = "invalid"
            /\ resp'.lookups = 0
            /\ req' = req
            /\ htmlCache' = htmlCache /\ metricsCache' = metricsCache
       /\ resp'.status \in {200, 500} =>
            ~JsFalsy(resp'.url) /\ UrlHref(resp'.url) # "invalid"
       /\ \A r \in req' : ~JsFalsy(r.url) /\ UrlHref(r.url) # "invalid"]_vars

\* An unparseable url is rejected while the cache holds an entry and
\* another request is fetching.
C7_Witness ==
    /\ resp.status = 400
    /\ resp.url = "not a url"
    /\ resp.endpoint = "POST /api/optimize"
    /\ \E k \in ServerKeys : htmlCache[k] # NoCached
    /\ \E r \in req : r.pc = "fetching"

Fetching == {r \in req : r.pc = "fetching"}
KeyOf(r) == serverCacheKey(r.href, r.opts)

\* C8 as stated: at most one upstream fetch per cache key is in flight.
C8_AtMostOneFetchPerKey ==
    \A r, q \in Fetching : r # q => KeyOf(r) # KeyOf(q)

\* C8, amended: population is check, then fetch, then insert, without a
\* lock. A request starts a fetch only in the step in which its own single
\* lookup of the key missed (no entry, or an expired one); when its fetch
\* succeeds it sets the key to its own result whatever other fetches of the
\* key are in flight, so two concurrent requests for one uncached key may
\* both fetch and both write, the later write winning.
C8_FetchOnlyAfterOwnMiss ==
    [][/\ \A r \in Fetching' \ Fetching :
            /\ r.lookups = 1
            /\ ~HtmlCacheHas(htmlCache, KeyOf(r), clock)
       /\ \A r \in Fetching \ Fetching' :
            resp'.status = 200 =>
               /\ resp'.id = r.id
               /\ htmlCache'[KeyOf(r)].v = resp'.body]_vars

\* Two fetches of one key in flight; then the first to finish has written
\* and the other is still fetching.
C8_Witness ==
    \E r \in Fetching :
        /\ resp.wrote
        /\ resp.id > r.id
        /\ RespKey = KeyOf(r)

\* C19: an upstream response of status 500 or more without a body is
\* answered 500 and writes no cache entry.
C19_EmptyErrorResponseIsError ==
    resp.upstream = "err_empty" => resp.status = 500 /\ ~resp.wrote

\* C20: a fetch that has not completed FETCH_TIMEOUT after its start is
\* abandoned: the request is answered 500, with no html and no metrics of
\* the page, and writes no cache entry.
C20_TimeoutIsError ==
    resp.upstream = "timeout" =>
        /\ resp.status = 500
        /\ resp.body = NoValue
        /\ ~resp.cached
        /\ ~resp.wrote

\* A POST /api/optimize whose fetch was still running after the timeout has
\* been answered 500.
C20_Witness ==
    /\ resp.upstream = "timeout"
    /\ resp.endpoint = "POST /api/optimize"
    /\ resp.status = 500
    /\ clock - FETCH_TIMEOUT >= 1000

\* `${targetUrl.href}_true_true_true_true`, the key GET /optimize writes out.
AllTrueKey(href) == <<href, T, T, T, T>>

\* C21: GET /optimize and POST /api/optimize with all four options true
\* share the entry of AllTrueKey: while it holds an unexpired entry,
\* whichever of the two wrote it, neither starts an upstream fetch for the
\* URL, and a request of either kind is answered 200 from that entry in the
\* step that receives it.
C21_AllTrueEntryShared ==
    [][/\ \A r \in Fetching' \ Fetching :
            r.opts = AllTrue => ~HtmlCacheHas(htmlCache, AllTrueKey(r.href), clock)
       /\ (/\ reqCount' = reqCount + 1
           /\ resp'.endpoint \in OptimizeEndpoints
           /\ resp'.opts = AllTrue
           /\ UrlHref(resp'.url) # "invalid"
           /\ HtmlCacheHas(htmlCache, AllTrueKey(UrlHref(resp'.url)), clock)) =>
             /\ resp'.status = 200
             /\ resp'.cached
             /\ resp'.upstream = "none"
             /\ resp'.body = htmlCache[AllTrueKey(UrlHref(resp'.url))].v
             /\ req' = req
             /\ htmlCache' = htmlCache]_vars

\* GET /optimize has been served the entry that a POST /api/optimize wrote.
C21_Witness ==
    /\ resp.endpoint = "GET /optimize"
    /\ resp.cached
    /\ resp.status = 200
    /\ resp.body.metrics # EmptyMetrics

\* C25: every POST /api/optimize response with cached = true carries the
\* metrics that calculateMetrics computed in the run that filled the cache
\* entry: the metrics calculated for the document and options of its html.
C25_CachedMetricsCalculated ==
    (resp.endpoint = "POST /api/optimize" /\ resp.cached) =>
        resp.body.metrics = CalculatedMetrics(resp.body.html.doc, resp.body.html.opts)

(***************************************************************************)
(* The backend optimizer: optimizeHTML on a fetched document, then         *)
(* calculateMetrics, as POST /api/optimize runs them. A document is a      *)
(* sequence of elements; nesting is not modelled.                          *)
(***************************************************************************)

\* Number of elements of a fetched document.
MaxDocLen == 2

El(tag, rel, href, src, style, text) ==
    [tag |-> tag, rel |-> rel, href |-> href, src |-> src, orig |-> U,
     style |-> style, text |-> text, id |-> U, inline |-> U]

ImgWithSrc == El("img", U, U, "https://a.test/a.png", U, U)
ImgNoSrc == El("img", U, U, U, U, U)
ImgEmptySrc == El("img", U, U, "", U, U)
StyleTag == El("style", U, U, U, U, "p{color:red}")
StyleFontFace == El("style", U, U, U, U, "@font-face{src:url(f.woff2)}p{color:red}")
LinkStylesheet == El("link", "stylesheet", "a.css", U, U, U)
LinkFont == El("link", "preload", "f.woff2", U, U, U)
Video == El("video", U, U, "m.mp4", U, U)
IframeVideo == El("iframe", U, U, "https://www.youtube.com/embed/x", U, U)
IframeOther == El("iframe", U, U, "https://maps.test/m", U, U)
Script == El("script", U, U, "a.js", U, U)
StyledP == El("p", U, U, U, "color:red", "text")
BackgroundDiv == El("div", U, U, U, "background-image:url(b.png)", "text")

Elements ==
    {ImgWithSrc, ImgNoSrc, ImgEmptySrc, StyleTag, StyleFontFace, LinkStylesheet, LinkFont,
     Video, IframeVideo, IframeOther, Script, StyledP, BackgroundDiv}

Docs == UNION {[1..n -> Elements] : n \in 0..MaxDocLen}

\* The options after destructuring with defaults: each is true or false.
OptionRecords ==
    [removeCSS : JsBool, removeImages : JsBool, removeVideos : JsBool, removeFonts : JsBool]

\* A JavaScript string used as a condition: undefined and "" are falsy.
StrTruthy(x) == x # U /\ x # ""

\* The elements the HTML parser keeps in <head> when they come first.
HeadTags == {"link", "style", "script", "noscript", "meta", "title"}

\* cheerio.load(html): a document with html, head and body; the leading
\* head-type elements are the children of head, the rest those of body.
CheerioLoad(html) ==
    LET nonHead == {i \in 1..Len(html) : html[i].tag \notin HeadTags}
        k == IF nonHead = {} THEN Len(html) + 1
             ELSE CHOOSE i \in nonHead : \A j \in nonHead : i <= j
    IN [hasHtml |-> TRUE, head |-> SubSeq(html, 1, k - 1), body |-> SubSeq(html, k, Len(html))]

\* $.html(): the elements of the document in order.
Serialize(dom) == dom.head \o dom.body

IsStylesheetLink(e) == e.tag = "link" /\ e.rel = "stylesheet"
IsStyleTag(e) == e.tag = "style"
IsImg(e) == e.tag = "img"
IsVideo(e) == e.tag = "video"
\* src.includes('youtube') || src.includes('vimeo') || src.includes('video')
IsVideoIframe(e) == e.tag = "iframe" /\ e.src \in {"https://www.youtube.com/embed/x"}
\* link[href*=".woff"], ... ".woff2", ".ttf", ".otf", ".eot"
IsFontLink(e) == e.tag = "link" /\ e.href \in {"f.woff2"}
IsScript(e) == e.tag \in {"script", "noscript"}

\* $(selector): whether the selector matches an element.
Selects(selector, e) ==
    CASE selector = "link[rel=stylesheet]" -> IsStylesheetLink(e)
      [] selector = "style" -> IsStyleTag(e)
      [] selector = "img" -> IsImg(e)
      [] selector = "video" -> IsVideo(e)
      [] selector = "iframe[video]" -> IsVideoIframe(e)
      [] selector = "link[font]" -> IsFontLink(e)
      [] selector = "script, noscript" -> IsScript(e)
      [] selector = "link[rel=preload][as=style]" -> e.tag = "link" /\ e.rel = "preload as=style"
      [] selector = "[style]" -> e.style # U
      [] selector = "#compressor-reset" -> e.id = "compressor-reset"
      [] selector = "#compressor-no-anim" -> e.id = "compressor-no-anim"
      [] selector = "#compressor-fonts" -> e.id = "compressor-fonts"
      [] selector = "iframe" -> e.tag = "iframe"
      [] selector = "[src*=.mp4]" -> e.src \in {"m.mp4"}
      [] OTHER -> FALSE

\* $(selector).remove(), and the number of elements a selector matches.
Without(dom, selector) ==
    [dom EXCEPT !.head = SelectSeq(dom.head, LAMBDA e : ~Selects(selector, e)),
                !.body = SelectSeq(dom.body, LAMBDA e : ~Selects(selector, e))]
Matching(dom, selector) ==
    Len(SelectSeq(Serialize(dom), LAMBDA e : Selects(selector, e)))

\* The <style> that CSS removal appends to head.
SystemFontStyle == El("style", U, U, U, U, "*{font-family:system-ui}body{background-color:#ffffff}")
\* The placeholder of an image.
PlaceholderStyle == "background-color:#f0f0f0;border:1px dashed #ccc"

\* $('img').each(...): every img keeps its source in data-original-src if
\* it has one, gets an empty src, the placeholder style and its alt text.
BlankImage(e) ==
    IF IsImg(e)
    THEN [e EXCEPT !.orig = IF StrTruthy(e.src) THEN e.src ELSE e.orig,
                   !.src = "", !.style = PlaceholderStyle, !.text = "[Image: Image]"]
    ELSE e
\* Elements whose style attribute names a background image lose it.
ClearBackground(e) ==
    IF e.style = "background-image:url(b.png)"
    THEN [e EXCEPT !.style = "background-image:none;background-color:#f0f0f0"]
    ELSE e
\* content.replace(/@font-face\s*\{[^}]*\}/g, '') on a style tag.
StripFontFace(e) ==
    IF IsStyleTag(e) /\ e.text = "@font-face{src:url(f.woff2)}p{color:red}"
    THEN [e EXCEPT !.text = "p{color:red}"]
    ELSE e
\* The address of the page, which img.src gives for an empty src attribute.
DocumentUrl == "https://a.test/"
\* The placeholder that the content script gives an image.
DisplayedPlaceholderStyle == "background:#f0f0f0;min-height:50px;border:1px dashed #ccc"
\* removeImages of the content script, for one element: an img whose src
\* attribute, currentSrc or src property is a non-empty string keeps that
\* string in data-original-src and gets an empty src, the placeholder style
\* and a text.
EffectiveSrc(e) ==
    IF StrTruthy(e.src) THEN e.src ELSE IF e.src = "" THEN DocumentUrl ELSE ""
BlankDisplayedImage(e) ==
    IF IsImg(e) /\ StrTruthy(EffectiveSrc(e))
    THEN [e EXCEPT !.orig = EffectiveSrc(e), !.src = "", !.style = DisplayedPlaceholderStyle,
                   !.text = "[Image removed]"]
    ELSE e
\* $('*').each(...) and the like: a change made to every element.
Changed(change, e) ==
    CASE change = "removeAttr style" -> [e EXCEPT !.style = U]
      [] change = "blank image" -> BlankImage(e)
      [] change = "clear background" -> ClearBackground(e)
      [] change = "strip @font-face" -> StripFontFace(e)
      [] change = "stash inline style" ->
            IF e.style # U THEN [e EXCEPT !.inline = e.style] ELSE e
      [] change = "blank displayed image" -> BlankDisplayedImage(e)
      [] change = "restore inline style" ->
            IF e.inline # U THEN [e EXCEPT !.style = e.inline, !.inline = U] ELSE e
      [] OTHER -> e
EachElement(dom, change) ==
    [dom EXCEPT !.head = [i \in 1..Len(dom.head) |-> Changed(change, dom.head[i])],
                !.body = [i \in 1..Len(dom.body) |-> Changed(change, dom.body[i])]]

\* A plausible slip: the style tags of the page are kept.
RemoveCSSKeepingStyleTags(dom) ==
    LET d1 == Without(dom, "link[rel=stylesheet]")
        d2 == EachElement(d1, "removeAttr style")
    IN [d2 EXCEPT !.head = Append(d2.head, SystemFontStyle)]

\* if (removeCSS) {...}: stylesheet links and style tags are removed, inline
\* style attributes are removed, and one <style> is appended to head.
RemoveCSS(dom) ==
    LET d1 == Without(dom, "link[rel=stylesheet]")
        d2 == Without(d1, "style")
        d3 == EachElement(d2, "removeAttr style")
    IN [d3 EXCEPT !.head = Append(d3.head, SystemFontStyle)]
CssRemoved(dom) == Matching(dom, "link[rel=stylesheet]") + Matching(dom, "style")

RemoveImages(dom) == EachElement(EachElement(dom, "blank image"), "clear background")
\* imagesRemoved++ runs for every img, before its src is looked at.
ImagesRemoved(dom) == Matching(dom, "img")

\* if (removeVideos) {...}
RemoveVideos(dom) == Without(Without(dom, "video"), "iframe[video]")
VideosRemoved(dom) == Matching(dom, "video") + Matching(dom, "iframe[video]")

\* if (removeFonts) {...}
RemoveFonts(dom) == EachElement(Without(dom, "link[font]"), "strip @font-face")
FontsRemoved(dom) == Matching(dom, "link[font]")

\* $('script').remove(); $('noscript').remove(); and, were there no html
\* element, the original html wrapped into a fresh document.
CleanUp(dom, html) ==
    LET d == Without(dom, "script, noscript")
    IN IF ~d.hasHtml
       THEN CheerioLoad(<<El("meta", U, U, U, U, U), El("title", U, U, U, U, "Optimized Page")>> \o html)
       ELSE d

NoCounts == [imagesRemoved |-> 0, cssRemoved |-> 0, videosRemoved |-> 0, fontsRemoved |-> 0]
\* The counters of calculateMetrics, which it passes through and sums.
calculateMetrics(data) ==
    [imagesRemoved |-> data.imagesRemoved, cssRemoved |-> data.cssRemoved,
     videosRemoved |-> data.videosRemoved, fontsRemoved |-> data.fontsRemoved,
     totalResourcesRemoved |-> data.imagesRemoved + data.cssRemoved
                               + data.videosRemoved + data.fontsRemoved]

EmptyDom == [hasHtml |-> TRUE, head |-> <<>>, body |-> <<>>]
IdleJob ==
    [pc |-> "idle", html |-> <<>>, options |-> AllTrue, dom |-> EmptyDom, counts |-> NoCounts,
     optimizedHTML |-> <<>>, metrics |-> calculateMetrics(NoCounts)]

\* optimizeHTML is called on a fetched document: options are destructured,
\* the document is loaded, the counters start at 0.
StartOptimize ==
    /\ job.pc = "idle"
    /\ \E html \in Docs, options \in OptionRecords :
          job' = [IdleJob EXCEPT !.pc = "css", !.html = html, !.options = options,
                                 !.dom = CheerioLoad(html)]
    /\ UNCHANGED nonJobVars

StageCSS ==
    /\ job.pc = "css"
    /\ job' = IF job.options.removeCSS = T
              THEN [job EXCEPT !.pc = "images", !.dom = RemoveCSS(job.dom),
                               !.counts.cssRemoved = CssRemoved(job.dom)]
              ELSE [job EXCEPT !.pc = "images"]
    /\ UNCHANGED nonJobVars

StageImages ==
    /\ job.pc = "images"
    /\ job' = IF job.options.removeImages = T
              THEN [job EXCEPT !.pc = "videos", !.dom = RemoveImages(job.dom),
                               !.counts.imagesRemoved = ImagesRemoved(job.dom)]
              ELSE [job EXCEPT !.pc = "videos"]
    /\ UNCHANGED nonJobVars

StageVideos ==
    /\ job.pc = "videos"
    /\ job' = IF job.options.removeVideos = T
              THEN [job EXCEPT !.pc = "fonts", !.dom = RemoveVideos(job.dom),
                               !.counts.videosRemoved = VideosRemoved(job.dom)]
              ELSE [job EXCEPT !.pc = "fonts"]
    /\ UNCHANGED nonJobVars

StageFonts ==
    /\ job.pc = "fonts"
    /\ job' = IF job.options.removeFonts = T
              THEN [job EXCEPT !.pc = "cleanup", !.dom = RemoveFonts(job.dom),
                               !.counts.fontsRemoved = FontsRemoved(job.dom)]
              ELSE [job EXCEPT !.pc = "cleanup"]
    /\ UNCHANGED nonJobVars

\* Scripts are removed and optimizeHTML returns html and counters.
StageCleanUp ==
    /\ job.pc = "cleanup"
    /\ LET d == CleanUp(job.dom, job.html)
       IN job' = [job EXCEPT !.pc = "optimized", !.dom = d, !.optimizedHTML = Serialize(d)]
    /\ UNCHANGED nonJobVars

\* The handler calculates the metrics and answers.
RespondOptimized ==
    /\ job.pc = "optimized"
    /\ job' = [job EXCEPT !.pc = "responded", !.metrics = calculateMetrics(job.counts)]
    /\ UNCHANGED nonJobVars

\* optimizeHTML from its first stage to its last on a loaded document: the
\* document it leaves and its counters.
OptimizeDom(dom, options) ==
    LET d1 == IF options.removeCSS = T THEN RemoveCSS(dom) ELSE dom
        d2 == IF options.removeImages = T THEN RemoveImages(d1) ELSE d1
        d3 == IF options.removeVideos = T THEN RemoveVideos(d2) ELSE d2
        d4 == IF options.removeFonts = T THEN RemoveFonts(d3) ELSE d3
    IN [dom |-> Without(d4, "script, noscript"),
        counts |->
           [imagesRemoved |-> IF options.removeImages = T THEN ImagesRemoved(d1) ELSE 0,
            cssRemoved |-> IF options.removeCSS = T THEN CssRemoved(dom) ELSE 0,
            videosRemoved |-> IF options.removeVideos = T THEN VideosRemoved(d2) ELSE 0,
            fontsRemoved |-> IF options.removeFonts = T THEN FontsRemoved(d3) ELSE 0]]

\* optimizeHTML is applied, with the same options, to the document it
\* returned; the html and the metrics of the first run are kept.
OptimizeAgain ==
    /\ job.pc = "responded"
    /\ LET second == OptimizeDom(job.dom, job.options)
       IN job' = [job EXCEPT !.pc = "again", !.dom = second.dom, !.counts = second.counts]
    /\ UNCHANGED nonJobVars

JobInit == job = IdleJob

JobNext ==
    \/ StartOptimize
    \/ StageCSS
    \/ StageImages
    \/ StageVideos
    \/ StageFonts
    \/ StageCleanUp
    \/ RespondOptimized
    \/ OptimizeAgain

Responded == job.pc = "responded" /\ job.options = AllTrue
StylesOf(doc) == SelectSeq(doc, IsStyleTag)
StylesheetLinksOf(doc) == SelectSeq(doc, IsStylesheetLink)

\* C9 as stated: with all options true the returned optimizedHTML has no
\* <style> element and no <link rel="stylesheet"> element.
C9_NoStyleElements ==
    Responded => StylesOf(job.optimizedHTML) = <<>> /\ StylesheetLinksOf(job.optimizedHTML) = <<>>

\* C9, amended: with all options true the returned optimizedHTML has no
\* <link rel="stylesheet"> element and none of the <style> elements of the
\* fetched document; its only <style> element is the system-font style
\* that CSS removal appends to head.
C9_OnlyInjectedStyle ==
    Responded =>
        /\ StylesheetLinksOf(job.optimizedHTML) = <<>>
        /\ StylesOf(job.optimizedHTML) = <<SystemFontStyle>>

\* A document with a stylesheet link and a style tag has been optimised.
C9_Witness ==
    /\ Responded
    /\ job.html = <<LinkStylesheet, StyleFontFace>>
    /\ job.optimizedHTML = <<SystemFontStyle>>
    /\ job.metrics.cssRemoved = 2

SourcedImagesOf(doc) == SelectSeq(doc, LAMBDA e : IsImg(e) /\ StrTruthy(e.src))

\* C13: optimizeHTML is idempotent: a second run with identical options on
\* the document it returned counts no removal of any kind and returns the
\* same document.
C13_SecondPassRemovesNothing ==
    job.pc = "again" =>
        /\ job.counts = NoCounts
        /\ Serialize(job.dom) = job.optimizedHTML

\* C10: with all options true, metrics.imagesRemoved is the number of <img>
\* elements of the fetched document that have a source; images without a
\* source are not counted.
C10_ImagesRemovedCountsSourced ==
    Responded => job.metrics.imagesRemoved = Len(SourcedImagesOf(job.html))

(***************************************************************************)
(* Metrics records: calculateMetrics of the backend, the improvement       *)
(* record of the content script, and the popup's performance gain.         *)
(* Times are in ms, sizes in bytes; a percentage with two decimals is kept *)
(* in hundredths of a percent, one with one decimal in tenths.             *)
(***************************************************************************)

Max(a, b) == IF a >= b THEN a ELSE b
Abs(a) == IF a >= 0 THEN a ELSE -a

\* Math.round(n / d) for d > 0: the nearest integer, a half going up.
MathRound(n, d) == (2 * n + d) \div (2 * d)

\* (n / d * 100).toFixed(k) for d > 0, in units of 10^-k percent (scale =
\* 10^k): the nearest such number, a half going away from zero.
ToFixedPercent(n, d, scale) ==
    LET q == (2 * Abs(n) * 100 * scale + d) \div (2 * d)
    IN IF n >= 0 THEN q ELSE -q

\* The inputs of the calculations: sizes in bytes and load times in ms.
Sizes == {0, 1024, 1536, 2048, 3072}
LoadTimes == {0, 100, 450, 500}

\* The timing and size fields of calculateMetrics. A load time x is kept
\* as x * 10240, so that sizeReduction / 1024 and loadTime * 0.1 are whole.
MetricsNumbers(originalSize, optimizedSize, loadTime) ==
    LET sizeReduction == originalSize - optimizedSize
        sizeReductionPercent ==
            IF originalSize > 0 THEN ToFixedPercent(sizeReduction, originalSize, 100) ELSE 0
        afterLoadTime == Max(loadTime * 10240 - sizeReduction * 10, loadTime * 1024)
        loadTimeReduction == loadTime * 10240 - afterLoadTime
        loadTimeReductionPercent ==
            IF loadTime > 0 THEN ToFixedPercent(loadTimeReduction, loadTime * 10240, 100) ELSE 0
    IN [beforeLoadTime |-> loadTime,
        afterLoadTime |-> MathRound(afterLoadTime, 10240),
        loadTimeReduction |-> MathRound(loadTimeReduction, 10240),
        loadTimeReductionPercent |-> loadTimeReductionPercent,
        beforeSize |-> originalSize,
        afterSize |-> optimizedSize,
        sizeReduction |-> sizeReduction,
        sizeReductionPercent |-> sizeReductionPercent,
        performanceGain |-> loadTimeReductionPercent]

\* The timing and size fields of the content script's improvement record;
\* it has no percentages.
Improvement(beforeLoadTime, afterLoadTime, beforeHtmlBytes, snapBytes) ==
    [beforeLoadTime |-> beforeLoadTime,
     afterLoadTime |-> afterLoadTime,
     loadTimeReduction |-> beforeLoadTime - afterLoadTime,
     loadTimeReductionPercent |-> 0,
     beforeSize |-> beforeHtmlBytes,
     afterSize |-> snapBytes,
     sizeReduction |-> beforeHtmlBytes - snapBytes,
     sizeReductionPercent |-> 0,
     performanceGain |-> 0]

\* displayMetrics of the popup: the gain shown, in tenths of a percent.
DisplayedGain(metrics) ==
    IF metrics.beforeLoadTime # 0 /\ metrics.afterLoadTime # 0
    THEN ToFixedPercent(metrics.beforeLoadTime - metrics.afterLoadTime,
                        metrics.beforeLoadTime, 10)
    ELSE 0

IdleCalc == [pc |-> "idle", metrics |-> Improvement(0, 0, 0, 0), gain |-> 0]

\* POST /api/optimize calculates the metrics of a fetched page.
ServerCalculates ==
    /\ calc.pc = "idle"
    /\ \E originalSize \in Sizes, optimizedSize \in Sizes, loadTime \in LoadTimes :
          calc' = [pc |-> "calculated",
                   metrics |-> MetricsNumbers(originalSize, optimizedSize, loadTime),
                   gain |-> 0]
    /\ UNCHANGED nonCalcVars

\* reportMetricsAndCache builds the improvement record and sends it with
\* storeMetrics.
ClientReports ==
    /\ calc.pc = "idle"
    /\ \E beforeLoadTime \in LoadTimes, afterLoadTime \in LoadTimes,
          beforeHtmlBytes \in Sizes, snapBytes \in Sizes :
          calc' = [pc |-> "stored",
                   metrics |-> Improvement(beforeLoadTime, afterLoadTime,
                                           beforeHtmlBytes, snapBytes),
                   gain |-> 0]
    /\ UNCHANGED nonCalcVars

\* The popup displays the stored metrics of the page.
PopupDisplays ==
    /\ calc.pc = "stored"
    /\ calc' = [calc EXCEPT !.pc = "shown", !.gain = DisplayedGain(calc.metrics)]
    /\ UNCHANGED nonCalcVars

CalcInit == calc = IdleCalc

CalcNext ==
    \/ ServerCalculates
    \/ ClientReports
    \/ PopupDisplays

\* C11: the performance gain of a Metrics record is max(0, loadTimeReduction
\* / baseline load time * 100) when the baseline load time is > 0 and 0
\* otherwise, so it is never negative, in the record the backend returns
\* and in the popup's display.
C11_GainClampedAtZero ==
    /\ calc.pc = "calculated" =>
          calc.metrics.performanceGain =
             IF calc.metrics.beforeLoadTime > 0
             THEN Max(0, calc.metrics.loadTimeReductionPercent)
             ELSE 0
    /\ calc.pc = "shown" =>
          calc.gain =
             IF calc.metrics.beforeLoadTime > 0
             THEN Max(0, ToFixedPercent(calc.metrics.loadTimeReduction,
                                        calc.metrics.beforeLoadTime, 10))
             ELSE 0

\* C12: in every Metrics record stored or returned, loadTimeReduction =
\* beforeLoadTime - afterLoadTime and sizeReduction = beforeSize - afterSize.
C12_ReductionsAreDifferences ==
    calc.pc \in {"calculated", "stored"} =>
        /\ calc.metrics.loadTimeReduction =
              calc.metrics.beforeLoadTime - calc.metrics.afterLoadTime
        /\ calc.metrics.sizeReduction = calc.metrics.beforeSize - calc.metrics.afterSize

(***************************************************************************)
(* The content script on the live document: removeAllCSS and               *)
(* restoreAllCSS. The document is parsed as above; data-compressor-        *)
(* inline-style is the field inline of an element.                         *)
(***************************************************************************)

LinkPreloadStyle == El("link", "preload as=style", "a.css", U, U, U)

PageElements ==
    {LinkStylesheet, StyleTag, LinkFont, LinkPreloadStyle, StyledP, BackgroundDiv, ImgWithSrc,
     Video}

PageDocs == UNION {[1..n -> PageElements] : n \in 0..MaxDocLen}

\* The <style id="compressor-reset"> that removeAllCSS appends to head.
ResetStyle ==
    [El("style", U, U, U, U, "*{font-family:system-ui}body{background:#fff}")
        EXCEPT !.id = "compressor-reset"]

NoStash == [links |-> <<>>, styles |-> <<>>, inlineCount |-> 0, stashed |-> FALSE]

\* removeAllCSS: unless done before, clones of the stylesheet links and
\* style tags are stashed and every inline style is copied to the dataset
\* of its element; then stylesheet links, font links, preloaded styles and
\* style tags are removed, inline styles are removed, and the reset style
\* is appended to head.
RemoveAllCSS(dom, cssStash) ==
    LET d0 == IF cssStash.stashed THEN dom ELSE EachElement(dom, "stash inline style")
        d1 == Without(d0, "link[rel=stylesheet]")
        d2 == Without(d1, "link[font]")
        d3 == Without(d2, "link[rel=preload][as=style]")
        d4 == Without(d3, "style")
        d5 == EachElement(d4, "removeAttr style")
    IN [dom |-> [d5 EXCEPT !.head = Append(d5.head, ResetStyle)],
        cssStash |->
           IF cssStash.stashed THEN cssStash
           ELSE [links |-> SelectSeq(Serialize(dom), IsStylesheetLink),
                 styles |-> SelectSeq(Serialize(dom), IsStyleTag),
                 inlineCount |-> Matching(dom, "[style]"),
                 stashed |-> TRUE]]

\* restoreAllCSS: the reset style is removed (there is never more than
\* one), clones of the stashed links and then of the stashed style tags are
\* appended to head, and every inline style kept in a dataset is put back.
RestoreAllCSS(dom, cssStash) ==
    LET d1 == Without(dom, "#compressor-reset")
        d2 == [d1 EXCEPT !.head = d1.head \o cssStash.links \o cssStash.styles]
    IN EachElement(d2, "restore inline style")

\* before is the document as it was when removeAllCSS last started,
\* original the document the content script started on.
\* observer is window.__compressorObserver with the removeCSS its callback
\* closed over, records the mutation records not yet delivered to it, each
\* named by the element it added, tick changes with every run of its
\* callback; applied and added count the applications
\* of the optimizer and the elements the page added, lastCSS is the removeCSS
\* of the last application. lastRemoval holds the counters of the script,
\* removed the number of elements that removeVideos and removeHeavyElements
\* have removed since the last application started; reportDue tells that
\* reportMetricsAndCache is still to run, stored is the record it sent.
IdlePage ==
    [pc |-> "idle", dom |-> EmptyDom, cssStash |-> NoStash, before |-> <<>>, original |-> <<>>,
     observer |-> "none", records |-> <<>>, tick |-> FALSE, applied |-> 0, added |-> 0,
     lastCSS |-> U, lastRemoval |-> [imagesRemoved |-> 0, videosRemoved |-> 0],
     removed |-> 0, reportDue |-> FALSE,
     stored |-> [sent |-> FALSE, imagesRemoved |-> 0, videosRemoved |-> 0]]

\* The content script starts on a document.
PageLoads ==
    /\ page.pc = "idle"
    /\ \E html \in PageDocs :
          page' = [IdlePage EXCEPT !.pc = "loaded", !.dom = CheerioLoad(html),
                                   !.original = html]
    /\ UNCHANGED nonPageVars

\* applyOptimizations({removeCSS: true}) reaches removeAllCSS.
PageRemovesCSS ==
    /\ page.pc \in {"loaded", "restored"}
    /\ LET r == RemoveAllCSS(page.dom, page.cssStash)
       IN page' = [page EXCEPT !.pc = "removed", !.dom = r.dom, !.cssStash = r.cssStash,
                               !.before = Serialize(page.dom)]
    /\ UNCHANGED nonPageVars

\* applyOptimizations({removeCSS: false}) reaches restoreAllCSS.
PageRestoresCSS ==
    /\ page.pc \in {"loaded", "removed"}
    /\ page' = [page EXCEPT !.pc = IF page.pc = "loaded" THEN "loaded" ELSE "restored",
                            !.dom = RestoreAllCSS(page.dom, page.cssStash)]
    /\ UNCHANGED nonPageVars

PageInit == page = IdlePage

PageNext ==
    \/ PageLoads
    \/ PageRemovesCSS
    \/ PageRestoresCSS

\* The elements that CSS removal neither removes for good nor re-appends.
Kept(doc) ==
    SelectSeq(doc, LAMBDA e : /\ ~IsStylesheetLink(e) /\ ~IsStyleTag(e) /\ ~IsFontLink(e)
                              /\ ~Selects("link[rel=preload][as=style]", e))

\* C14: after removeAllCSS followed by restoreAllCSS the document has every
\* stylesheet link and every style tag it had before the removal, its other
\* elements carry the inline style attribute values they had, and no
\* element has the id compressor-reset.
C14_CssRoundTrip ==
    page.pc = "restored" =>
        /\ StylesheetLinksOf(Serialize(page.dom)) = StylesheetLinksOf(page.before)
        /\ StylesOf(Serialize(page.dom)) = StylesOf(page.before)
        /\ Kept(Serialize(page.dom)) = Kept(page.before)
        /\ \A i \in 1..Len(Serialize(page.dom)) : Serialize(page.dom)[i].id # "compressor-reset"

\* The inline style attributes of the elements that CSS removal keeps.
InlineStylesOf(doc) == [i \in 1..Len(Kept(doc)) |-> Kept(doc)[i].style]

\* C31: after any number of remove-then-restore cycles every element's
\* inline style attribute has the value it had before the first removal.
C31_RoundTripRepeats ==
    page.pc = "restored" => InlineStylesOf(Serialize(page.dom)) = InlineStylesOf(page.original)


(***************************************************************************)
(* The content script as a process: its start, the replies to getState     *)
(* and getBaseline, the load event, the timers of whenLoaded and the       *)
(* applyState notifications, with the background's stores of baselines     *)
(* and metrics for the page's URL. A measurement records whether           *)
(* applyOptimizations had already run on the document it measured.         *)
(***************************************************************************)

MaxToggles == 2
\* Number of checkAndApplyOptimization invocations on one document: the one
\* at the start and the one the ?compressor=1 parameter sets a timer for.
MaxChecks == 2
\* Number of 'optimize' messages a behaviour sends to the script.
MaxOptimizeMsgs == 1

\* location.hostname of the page; "none" before the tab has a page.
Hostnames == {"a.test", "localhost", "127.0.0.1"}

NoBaseline == [set |-> FALSE, mutated |-> FALSE]

NoStoredMetrics == [set |-> FALSE, from |-> "none", mutated |-> FALSE]

\* measurePerformance() on the document as it is now.
MeasurePerformance == [set |-> TRUE, mutated |-> script.mutated]

Msg(k, for, v) == [k |-> k, for |-> for, v |-> v]

IdleTab ==
    [pc |-> "idle", readyState |-> "loading", mutated |-> FALSE,
     isOptimized |-> FALSE, marked |-> FALSE, before |-> NoBaseline,
     enabled |-> FALSE, toggles |-> 0,
     baseline |-> NoBaseline, metrics |-> NoStoredMetrics, pending |-> {},
     hostname |-> "none", checks |-> 0, optimizeMsgs |-> 0,
     passes |-> 0, scheduled |-> 0, observers |-> 0]

\* __compressorSkip, set when the script starts on localhost or 127.0.0.1.
CompressorSkip == script.hostname \in {"localhost", "127.0.0.1"}

\* The callers of optimizePage whose replies are on their way.
OptimizeCalls == {"optimize", "message"}

\* whenLoaded(cb): a timer when the document is complete, a load listener
\* otherwise.
WhenLoaded(cb) ==
    IF script.readyState = "complete" THEN Msg("timer", cb, FALSE) ELSE Msg("onload", cb, FALSE)

\* The script runs at DOMContentLoaded or later and asks for the state.
ScriptStarts ==
    /\ script.pc = "idle"
    /\ \E rs \in {"interactive", "complete"},
          host \in (IF script.hostname = "none" THEN Hostnames ELSE {script.hostname}) :
          script' = [script EXCEPT !.pc = "running", !.readyState = rs,
                             !.hostname = host, !.checks = 1,
                             !.pending = @ \cup {Msg("getState", "check", FALSE)}]
    /\ UNCHANGED nonTabVars

\* The background answers getState with the stored state.
BackgroundGetState ==
    /\ \E m \in script.pending :
          /\ m.k = "getState"
          /\ script' = [script EXCEPT !.pending = (@ \ {m}) \cup {Msg("state", m.for, script.enabled)}]
    /\ UNCHANGED nonTabVars

\* The timer of the ?compressor=1 branch: checkAndApplyOptimization is
\* called once more on the same document.
CheckAgain ==
    /\ script.pc = "running"
    /\ script.checks < MaxChecks
    /\ script' = [script EXCEPT !.checks = @ + 1,
                          !.pending = @ \cup {Msg("getState", "check", FALSE)}]
    /\ UNCHANGED nonTabVars

\* onMessage 'optimize': optimizePage asks for the state unless isOptimized.
OptimizeMessage ==
    /\ script.pc = "running"
    /\ script.optimizeMsgs < MaxOptimizeMsgs
    /\ script' = [script EXCEPT !.optimizeMsgs = @ + 1,
                          !.pending = @ \cup (IF script.isOptimized THEN {}
                                              ELSE {Msg("getState", "message", FALSE)})]
    /\ UNCHANGED nonTabVars

\* checkAndApplyOptimization's callback: nothing on a skipped host; OFF
\* registers the baseline measurement with whenLoaded; ON marks the
\* document and calls optimizePage, which asks for the state again unless
\* isOptimized.
CheckCallback ==
    /\ \E m \in script.pending :
          /\ m.k = "state" /\ m.for = "check"
          /\ script' = IF CompressorSkip
                    THEN [script EXCEPT !.pending = @ \ {m}]
                    ELSE IF ~m.v
                    THEN [script EXCEPT !.pending = (@ \ {m}) \cup {WhenLoaded("baseline")}]
                    ELSE IF script.marked
                    THEN [script EXCEPT !.pending = @ \ {m}]
                    ELSE [script EXCEPT !.marked = TRUE,
                                     !.pending = (@ \ {m}) \cup
                                        (IF script.isOptimized THEN {}
                                         ELSE {Msg("getState", "optimize", FALSE)})]
    /\ UNCHANGED nonTabVars

\* optimizePage's getState callback.
OptimizeCallback ==
    /\ \E m \in script.pending :
          /\ m.k = "state" /\ m.for \in OptimizeCalls
          /\ script' = IF ~m.v
                    THEN [script EXCEPT !.pending = @ \ {m}]
                    ELSE [script EXCEPT !.isOptimized = TRUE,
                                     !.pending = (@ \ {m}) \cup
                                        {Msg("getBaseline", m.for, NoBaseline)}]
    /\ UNCHANGED nonTabVars

\* The background answers getBaseline with the stored baseline or null.
BackgroundGetBaseline ==
    /\ \E m \in script.pending :
          /\ m.k = "getBaseline"
          /\ script' = [script EXCEPT !.pending = (@ \ {m}) \cup {Msg("baseline", m.for, script.baseline)}]
    /\ UNCHANGED nonTabVars

\* optimizePage's getBaseline callback: performanceMetrics.before is the
\* baseline or a measurement, then applyOptimizations runs, the observer
\* is created unless window.__compressorObserver is set, and the report is
\* registered with whenLoaded.
OptimizeBaselineCallback ==
    /\ \E m \in script.pending :
          /\ m.k = "baseline" /\ m.for \in OptimizeCalls
          /\ script' = [script EXCEPT !.before = IF m.v.set THEN m.v ELSE MeasurePerformance,
                                !.mutated = TRUE,
                                !.passes = @ + 1,
                                !.scheduled = @ + 1,
                                !.observers = IF @ = 0 THEN 1 ELSE @,
                                !.pending = (@ \ {m}) \cup {WhenLoaded("report")}]
    /\ UNCHANGED nonTabVars

\* The load event: every listener of whenLoaded sets its timer.
LoadEvent ==
    /\ script.pc = "running"
    /\ script.readyState = "interactive"
    /\ script' = [script EXCEPT !.readyState = "complete",
                          !.pending = {IF m.k = "onload" THEN Msg("timer", m.for, FALSE) ELSE m :
                                         m \in @}]
    /\ UNCHANGED nonTabVars

\* The timer of the OFF branch: measure and send storeBaseline.
BaselineTimer ==
    /\ \E m \in script.pending :
          /\ m.k = "timer" /\ m.for = "baseline"
          /\ script' = [script EXCEPT !.pending = (@ \ {m}) \cup
                                   {Msg("storeBaseline", "background", MeasurePerformance)}]
    /\ UNCHANGED nonTabVars

\* The timer of optimizePage: reportMetricsAndCache asks for the baseline.
ReportTimer ==
    /\ \E m \in script.pending :
          /\ m.k = "timer" /\ m.for = "report"
          /\ script' = [script EXCEPT !.pending = (@ \ {m}) \cup
                                   {Msg("getBaseline", "report", NoBaseline)}]
    /\ UNCHANGED nonTabVars

\* reportMetricsAndCache's callback: beforePerf is the baseline's perf or a
\* measurement taken now; the improvement goes to storeMetrics.
ReportCallback ==
    /\ \E m \in script.pending :
          /\ m.k = "baseline" /\ m.for = "report"
          /\ LET beforePerf == IF m.v.set THEN m.v ELSE MeasurePerformance
                 improvement == [set |-> TRUE,
                                 from |-> IF m.v.set THEN "baseline" ELSE "measured",
                                 mutated |-> beforePerf.mutated]
             IN script' = [script EXCEPT !.pending = (@ \ {m}) \cup
                                      {[k |-> "storeMetrics", for |-> "background",
                                        v |-> improvement]}]
    /\ UNCHANGED nonTabVars

BackgroundStoreBaseline ==
    /\ \E m \in script.pending :
          /\ m.k = "storeBaseline"
          /\ script' = [script EXCEPT !.baseline = m.v, !.pending = @ \ {m}]
    /\ UNCHANGED nonTabVars

BackgroundStoreMetrics ==
    /\ \E m \in script.pending :
          /\ m.k = "storeMetrics"
          /\ script' = [script EXCEPT !.metrics = m.v, !.pending = @ \ {m}]
    /\ UNCHANGED nonTabVars

\* The user toggles the extension: the background stores the new state
\* and sends applyState to the active tab.
UserToggles ==
    /\ script.toggles < MaxToggles
    /\ script' = [script EXCEPT !.enabled = ~@, !.toggles = @ + 1,
                          !.pending = @ \cup {Msg("applyState", "script", ~script.enabled)}]
    /\ UNCHANGED nonTabVars

\* applyState in the content script: OFF reloads the page, which ends the
\* script's callbacks and starts a new document; ON runs applyOptimizations
\* and reportMetricsAndCache at once. Without a content script the message
\* is lost.
ApplyStateArrives ==
    /\ \E m \in script.pending :
          /\ m.k = "applyState"
          /\ script' = IF script.pc = "idle"
                    THEN [script EXCEPT !.pending = @ \ {m}]
                    ELSE IF ~m.v
                    THEN [script EXCEPT !.pc = "idle", !.readyState = "loading",
                                     !.mutated = FALSE, !.isOptimized = FALSE,
                                     !.marked = FALSE, !.before = NoBaseline,
                                     !.checks = 0, !.passes = 0, !.scheduled = 0,
                                     !.observers = 0,
                                     !.pending = {n \in @ \ {m} :
                                        n.k \in {"storeBaseline", "storeMetrics", "applyState"}}]
                    ELSE [script EXCEPT !.mutated = TRUE,
                                     !.pending = (@ \ {m}) \cup
                                        {Msg("getBaseline", "report", NoBaseline)}]
    /\ UNCHANGED nonTabVars

\* The message port of a getState or getBaseline request closes without
\* a response (the service worker was stopped): Chrome calls the callback
\* with undefined, which the callbacks read as disabled and as no baseline.
PortCloses ==
    /\ \E m \in script.pending :
          /\ m.k \in {"getState", "getBaseline"}
          /\ script' = [script EXCEPT !.pending = (@ \ {m}) \cup
                            {IF m.k = "getState" THEN Msg("state", m.for, FALSE)
                             ELSE Msg("baseline", m.for, NoBaseline)}]
    /\ UNCHANGED nonTabVars

TabInit == script = IdleTab

TabNext ==
    \/ ScriptStarts
    \/ CheckAgain
    \/ OptimizeMessage
    \/ BackgroundGetState
    \/ CheckCallback
    \/ OptimizeCallback
    \/ BackgroundGetBaseline
    \/ OptimizeBaselineCallback
    \/ LoadEvent
    \/ BaselineTimer
    \/ ReportTimer
    \/ ReportCallback
    \/ BackgroundStoreBaseline
    \/ BackgroundStoreMetrics
    \/ UserToggles
    \/ ApplyStateArrives
    \/ PortCloses

\* The content script's own steps are taken when they can be: its callbacks
\* once a reply is there, the load event and its timers. Whether the
\* background answers a getBaseline request, or its port closes, is left
\* open.
ScriptFairness ==
    /\ WF_vars(BackgroundGetState)
    /\ WF_vars(CheckCallback)
    /\ WF_vars(OptimizeCallback)
    /\ WF_vars(OptimizeBaselineCallback)
    /\ WF_vars(LoadEvent)
    /\ WF_vars(BaselineTimer)
    /\ WF_vars(ReportTimer)
    /\ WF_vars(ReportCallback)

AwaitsBaseline(for) == \E m \in script.pending : m.k = "getBaseline" /\ m.for = for

\* C37: on a page of localhost or 127.0.0.1 applyOptimizations has not run
\* and no baseline is stored or on its way to the store.
C37_OwnHostsUntouched ==
    CompressorSkip =>
        /\ ~script.mutated
        /\ ~script.baseline.set
        /\ \A m \in script.pending : m.k # "storeBaseline"

\* C38: on one document optimizePage has called applyOptimizations at most
\* once, registered the metrics report at most once, and at most one
\* mutation observer was created.
C38_OnePassPerDocument ==
    /\ script.passes <= 1
    /\ script.scheduled <= 1
    /\ script.observers <= 1

C15_BaselineMeasuredBeforeMutation ==
    script.baseline.set => ~script.baseline.mutated

\* C16: when no baseline was stored, the before-values of the stored
\* metrics come from a measurement taken before applyOptimizations ran.
C16_FallbackMeasuredBeforeMutation ==
    (script.metrics.set /\ script.metrics.from = "measured") => ~script.metrics.mutated

(***************************************************************************)
(* buildLightSnapshot. A text is two runs of characters of one class each; *)
(* a class fixes the UTF-16 units of a character (String length, slice)    *)
(* and the UTF-8 bytes of its escapeHtml form (Blob size). The title is    *)
(* inserted unescaped, so only its byte length matters.                    *)
(***************************************************************************)

TARGET_SNAPSHOT_BYTES == 50 * 1024

\* Bytes of the fixed shell around title and text: doctype, metas, title
\* tags, the style block with minimalCss, and the pre element.
ShellBytes == 357

\* Math.max(500, ...): the least length a truncation keeps.
MinKeptLength == 500

\* Bytes of the U+FFFD that Blob writes for a surrogate cut from its pair.
LoneSurrogateBytes == 3

CharClasses == {"ascii", "amp", "apos", "latin", "euro", "emoji"}

\* UTF-16 code units of one character.
Units(c) == IF c = "emoji" THEN 2 ELSE 1

\* UTF-8 bytes of escapeHtml of one character: & is &amp; and ' is &#039;.
EscapedBytes(c) ==
    CASE c = "ascii" -> 1
      [] c = "amp" -> 5
      [] c = "apos" -> 6
      [] c = "latin" -> 2
      [] c = "euro" -> 3
      [] c = "emoji" -> 4

RunChars == {0, 1, 250, 500, 501, 9000, 30000, 60000}

Runs == [cls : CharClasses, chars : RunChars]

\* Byte lengths of (document.title || 'Optimized') without < and >.
TitleBytes == {0, 9, 52000}

\* innerText after trim, or the literal (no text content) of 17 characters.
TextOf(r1, r2) ==
    IF r1.chars = 0 /\ r2.chars = 0
    THEN <<[cls |-> "ascii", chars |-> 17], r2>>
    ELSE <<r1, r2>>

RunLength(r) == r.chars * Units(r.cls)

\* safeText.length
Length(text) == RunLength(text[1]) + RunLength(text[2])

Min(a, b) == IF a <= b THEN a ELSE b

\* Bytes of escapeHtml of the first n units of a run; a cut inside a
\* surrogate pair leaves a lone surrogate.
RunBytes(r, n) ==
    LET take == Min(Max(n, 0), RunLength(r))
    IN (take \div Units(r.cls)) * EscapedBytes(r.cls)
       + (IF take % Units(r.cls) # 0 THEN LoneSurrogateBytes ELSE 0)

\* byteSize of the html built with the title and safeText.slice(0, n).
BuildBytes(titleBytes, text, n) ==
    ShellBytes + titleBytes + RunBytes(text[1], n) + RunBytes(text[2], n - RunLength(text[1]))

\* A plausible slip: the retry keeps the whole text.
NextLensWithoutRatio(length, bytes) == {Max(MinKeptLength, length)}

\* Quotient and remainder of a * b by c, by halving b, so that no
\* intermediate value leaves the 32-bit integers of the checker.
RECURSIVE MulDivMod(_, _, _)
MulDivMod(a, b, c) ==
    IF b = 0 THEN [q |-> 0, r |-> 0]
    ELSE LET h == MulDivMod(a, b \div 2, c)
             r2 == 2 * h.r + (IF b % 2 = 1 THEN a % c ELSE 0)
             q2 == 2 * h.q + (IF b % 2 = 1 THEN a \div c ELSE 0)
         IN [q |-> q2 + (r2 \div c), r |-> r2 % c]

\* Math.max(500, Math.floor(safeText.length * ratio * 0.9)) with ratio =
\* TARGET_SNAPSHOT_BYTES / bytes, that is length * 46080 / bytes. The
\* product is computed in floating point: where its exact value is an
\* integer k the floor is k or k - 1.
NextLens(length, bytes) ==
    LET d == MulDivMod(length, (TARGET_SNAPSHOT_BYTES \div 10) * 9, bytes)
        floors == IF d.r = 0 /\ d.q > 0 THEN {d.q, d.q - 1} ELSE {d.q}
    IN {Max(MinKeptLength, f) : f \in floors}

IdleSnap ==
    [pc |-> "idle", titleBytes |-> 0, text |-> TextOf([cls |-> "ascii", chars |-> 0],
                                                      [cls |-> "ascii", chars |-> 0]),
     first |-> 0, builds |-> 0, kept |-> 0, bytes |-> 0]

\* The first build with the whole text, and its measurement.
FirstBuild ==
    /\ snap.pc = "idle"
    /\ \E t \in TitleBytes, r1 \in Runs, r2 \in Runs :
          LET text == TextOf(r1, r2)
              bytes == BuildBytes(t, text, Length(text))
          IN snap' = [pc |-> "built", titleBytes |-> t, text |-> text, first |-> bytes,
                      builds |-> 1, kept |-> Length(text), bytes |-> bytes]
    /\ UNCHANGED nonSnapVars

\* Within budget: the first build is returned.
ReturnFirst ==
    /\ snap.pc = "built"
    /\ ~(snap.first > TARGET_SNAPSHOT_BYTES)
    /\ snap' = [snap EXCEPT !.pc = "returned"]
    /\ UNCHANGED nonSnapVars

\* Over budget: the text is sliced, the html rebuilt once and returned.
RetryOnce ==
    /\ snap.pc = "built"
    /\ snap.first > TARGET_SNAPSHOT_BYTES
    /\ \E nextLen \in NextLens(Length(snap.text), snap.first) :
          snap' = [snap EXCEPT !.pc = "returned", !.builds = 2,
                               !.kept = Min(nextLen, Length(snap.text)),
                               !.bytes = BuildBytes(snap.titleBytes, snap.text, nextLen)]
    /\ UNCHANGED nonSnapVars

SnapInit == snap = IdleSnap

SnapNext ==
    \/ FirstBuild
    \/ ReturnFirst
    \/ RetryOnce

\* C17 as stated: the returned snapshot is the first build within budget,
\* or one retry that is smaller than the first build.
C17_RetrySmaller ==
    snap.pc = "returned" =>
        \/ snap.builds = 1 /\ snap.bytes = snap.first /\ snap.bytes <= TARGET_SNAPSHOT_BYTES
        \/ snap.builds = 2 /\ snap.first > TARGET_SNAPSHOT_BYTES /\ snap.bytes < snap.first

\* C17: the returned snapshot is the first build within budget, or one
\* retry of an over-budget build that is never larger than the first
\* build: smaller when the text is longer than 500 units, and of the same
\* size when it is not, the text then being kept whole.
C17_RetryNeverLarger ==
    snap.pc = "returned" =>
        \/ snap.builds = 1 /\ snap.bytes = snap.first /\ snap.bytes <= TARGET_SNAPSHOT_BYTES
        \/ /\ snap.builds = 2
           /\ snap.first > TARGET_SNAPSHOT_BYTES
           /\ IF Length(snap.text) > MinKeptLength
              THEN snap.bytes < snap.first /\ snap.kept < Length(snap.text)
              ELSE snap.bytes = snap.first /\ snap.kept = Length(snap.text)

\* A long text of multi-byte characters was truncated once and is returned,
\* smaller than the first build but still over the budget.
C17_Witness ==
    /\ snap.pc = "returned"
    /\ snap.builds = 2
    /\ Length(snap.text) > MinKeptLength
    /\ snap.bytes < snap.first
    /\ snap.bytes > TARGET_SNAPSHOT_BYTES

(***************************************************************************)
(* measurePerformance's loop over the resource timing entries. A resource  *)
(* name is a sequence of pieces, so that the regular expressions and       *)
(* includes() of the code are tests on the pieces and their order.         *)
(***************************************************************************)

MaxResources == 2

MaxNameLen == 3

NamePieces ==
    {"/assets/", "video", "youtube", "?v=1", ".css", ".png", ".mp4", ".woff2"}

ResourceNames == UNION {[1..n -> NamePieces] : n \in 1..MaxNameLen}

InitiatorTypes == {"link", "img", "other"}

\* name.includes(piece)
Includes(name, piece) == \E i \in 1..Len(name) : name[i] = piece

\* /\.(ext|...)(\?|$)/.test(name): an extension at the end of the name or
\* right before a question mark.
HasExtension(name, exts) ==
    \E i \in 1..Len(name) :
        /\ name[i] \in exts
        /\ (i = Len(name) \/ name[i + 1] = "?v=1")

IsImageResource(name) == HasExtension(name, {".png"})

IsCssResource(name, initiatorType) == Includes(name, ".css") \/ initiatorType = "link"

IsVideoResource(name) ==
    HasExtension(name, {".mp4"}) \/ Includes(name, "youtube")

IsFontResource(name) == HasExtension(name, {".woff2"})

\* The counters one resource increments: four separate if statements.
ClassesOf(name, initiatorType) ==
    (IF IsImageResource(name) THEN {"image"} ELSE {})
    \cup (IF IsCssResource(name, initiatorType) THEN {"css"} ELSE {})
    \cup (IF IsVideoResource(name) THEN {"video"} ELSE {})
    \cup (IF IsFontResource(name) THEN {"font"} ELSE {})

Count(c, classes) == IF c \in classes THEN 1 ELSE 0

IdlePerf ==
    [resourceCount |-> 0, imageCount |-> 0, cssCount |-> 0, videoCount |-> 0,
     fontCount |-> 0, name |-> <<>>, classes |-> {}]

\* One turn of resources.forEach.
CountResource ==
    /\ perf.resourceCount < MaxResources
    /\ \E name \in ResourceNames, initiatorType \in InitiatorTypes :
          LET classes == ClassesOf(name, initiatorType)
          IN perf' = [resourceCount |-> perf.resourceCount + 1,
                      imageCount |-> perf.imageCount + Count("image", classes),
                      cssCount |-> perf.cssCount + Count("css", classes),
                      videoCount |-> perf.videoCount + Count("video", classes),
                      fontCount |-> perf.fontCount + Count("font", classes),
                      name |-> name, classes |-> classes]
    /\ UNCHANGED nonPerfVars

PerfInit == perf = IdlePerf

PerfNext == CountResource

\* C18: every resource is counted in at most one of image, video, font and
\* stylesheet, and /assets/video.css is counted as stylesheet only.
C18_AtMostOneClass ==
    /\ perf.imageCount + perf.cssCount + perf.videoCount + perf.fontCount <= perf.resourceCount
    /\ Cardinality(perf.classes) <= 1
    /\ perf.name = <<"/assets/", "video", ".css">> => perf.classes = {"css"}

\* ---------------------------------------------------------------------
\* The content script applying the optimizer to a page and observing it:
\* applyOptimizations, observeDynamicHeavyContent (content.js).
\* ---------------------------------------------------------------------

\* Applications of the optimizer to one page, and elements the page adds.
MaxApplications == 3
MaxAdded == 1

NoAnimStyle ==
    [El("style", U, U, U, U, "*{animation:none!important}") EXCEPT !.id = "compressor-no-anim"]
FontsStyle ==
    [El("style", U, U, U, U, "*{font-family:system-ui!important}")
        EXCEPT !.id = "compressor-fonts"]

\* disableAnimations: unless an element with the id exists, the style is
\* appended to head.
DisableAnimations(dom) ==
    IF Matching(dom, "#compressor-no-anim") > 0 THEN dom
    ELSE [dom EXCEPT !.head = Append(dom.head, NoAnimStyle)]

\* ensureSystemFonts: the same with its own id.
EnsureSystemFonts(dom) ==
    IF Matching(dom, "#compressor-fonts") > 0 THEN dom
    ELSE [dom EXCEPT !.head = Append(dom.head, FontsStyle)]

\* removeImages: images are blanked, background images are cleared.
RemoveDisplayedImages(dom) ==
    EachElement(EachElement(dom, "blank displayed image"), "clear background")

\* removed, as removeImages counts it: the images that have a source.
DisplayedImagesRemoved(dom) ==
    Len(SelectSeq(Serialize(dom), LAMBDA e : IsImg(e) /\ StrTruthy(EffectiveSrc(e))))
\* els.length of removeVideos and of removeHeavyElements.
DisplayedVideosRemoved(dom) ==
    Len(SelectSeq(Serialize(dom), LAMBDA e : \/ Selects("video", e)
                                             \/ Selects("iframe[video]", e)
                                             \/ Selects("[src*=.mp4]", e)))
HeavyElementsRemoved(dom) == Matching(dom, "iframe")

\* removeVideos and removeHeavyElements: the elements are removed.
RemoveDisplayedVideos(dom) ==
    Without(Without(Without(dom, "video"), "iframe[video]"), "[src*=.mp4]")
RemoveHeavyElements(dom) == Without(dom, "iframe")

\* The mutation record of an element appended to the document, named by
\* what the observer's callback looks for in it.
RecordOf(e) ==
    IF IsImg(e) THEN "img"
    ELSE IF e.tag \in {"video", "iframe"} THEN "video"
    ELSE IF IsStyleTag(e) \/ IsStylesheetLink(e) THEN "css"
    ELSE "other"
RecordsOf(elements) == [i \in 1..Len(elements) |-> RecordOf(elements[i])]

\* applyOptimizations({removeCSS}): removeAllCSS or restoreAllCSS, then
\* disableAnimations, removeImages, removeVideos, removeHeavyElements,
\* ensureSystemFonts; records holds the elements it appended, in order.
ApplyOptimizations(dom, cssStash, removeCSS) ==
    LET r == IF removeCSS THEN RemoveAllCSS(dom, cssStash)
             ELSE [dom |-> RestoreAllCSS(dom, cssStash), cssStash |-> cssStash]
        a1 == IF removeCSS THEN <<ResetStyle>> ELSE cssStash.links \o cssStash.styles
        d2 == DisableAnimations(r.dom)
        a2 == IF d2 = r.dom THEN <<>> ELSE <<NoAnimStyle>>
        d3 == RemoveDisplayedImages(d2)
        d4 == RemoveDisplayedVideos(d3)
        d5 == RemoveHeavyElements(d4)
        d6 == EnsureSystemFonts(d5)
        a6 == IF d6 = d5 THEN <<>> ELSE <<FontsStyle>>
    IN [dom |-> d6, cssStash |-> r.cssStash, records |-> RecordsOf(a1 \o a2 \o a6),
        lastRemoval |->
           [imagesRemoved |-> DisplayedImagesRemoved(d2),
            videosRemoved |-> DisplayedVideosRemoved(d3) + HeavyElementsRemoved(d4)],
        removed |-> DisplayedVideosRemoved(d3) + HeavyElementsRemoved(d4)]

\* The observer's callback on the records delivered to it, in order: an
\* added img runs removeImages, an added video or iframe runs
\* removeVideos, an added style or stylesheet link runs removeAllCSS if
\* the observer was created with removeCSS; out holds the records of the
\* elements that these runs append.
\* One record: the run it causes, and the record of the element that run
\* appends.
DeliverOne(st, k, removeCSS) ==
    CASE k = "img" ->
            [st EXCEPT !.dom = RemoveDisplayedImages(st.dom),
                       !.lastRemoval.imagesRemoved = DisplayedImagesRemoved(st.dom)]
      [] k = "video" ->
            [st EXCEPT !.dom = RemoveDisplayedVideos(st.dom),
                       !.lastRemoval.videosRemoved = DisplayedVideosRemoved(st.dom),
                       !.removed = st.removed + DisplayedVideosRemoved(st.dom)]
      [] k = "css" /\ removeCSS ->
            LET r == RemoveAllCSS(st.dom, st.cssStash)
            IN [st EXCEPT !.dom = r.dom, !.cssStash = r.cssStash,
                          !.out = Append(st.out, RecordOf(ResetStyle))]
      [] OTHER -> st
RECURSIVE Deliver(_, _, _)
Deliver(st, records, removeCSS) ==
    IF records = <<>> THEN st
    ELSE CHOOSE r \in {Deliver(next, Tail(records), removeCSS) :
                          next \in {DeliverOne(st, Head(records), removeCSS)}} : TRUE

\* What the observer sees of the elements just appended: nothing while no
\* observer exists.
Observed(records) == IF page.observer = "none" THEN <<>> ELSE page.records \o records

\* optimizePage after both replies: applyOptimizations, then
\* observeDynamicHeavyContent creates the observer.
OptimizePage ==
    /\ page.pc = "loaded"
    /\ page.applied = 0
    /\ \E removeCSS \in BOOLEAN :
          LET r == ApplyOptimizations(page.dom, page.cssStash, removeCSS)
          IN page' = [page EXCEPT !.pc = "optimized", !.dom = r.dom, !.cssStash = r.cssStash,
                                  !.observer = IF removeCSS THEN "removeCSS" ELSE "keepCSS",
                                  !.applied = 1,
                                  !.lastCSS = IF removeCSS THEN T ELSE F,
                                  !.lastRemoval = r.lastRemoval, !.removed = r.removed,
                                  !.reportDue = TRUE]
    /\ UNCHANGED nonPageVars

\* onMessage applyState with the extension enabled: applyOptimizations. A
\* message is handled only after the pending observer callback, which is
\* a microtask, has run.
ApplyStateMessage ==
    /\ page.pc \in {"loaded", "optimized"}
    /\ page.records = <<>>
    /\ page.applied < MaxApplications
    /\ \E removeCSS \in BOOLEAN :
          LET r == ApplyOptimizations(page.dom, page.cssStash, removeCSS)
          IN page' = [page EXCEPT !.dom = r.dom, !.cssStash = r.cssStash,
                                  !.records = Observed(r.records),
                                  !.applied = page.applied + 1,
                                  !.lastCSS = IF removeCSS THEN T ELSE F,
                                  !.lastRemoval = r.lastRemoval, !.removed = r.removed,
                                  !.reportDue = TRUE]
    /\ UNCHANGED nonPageVars

\* What a script of the page may append to body.
AddedElements == {StyleTag, LinkStylesheet, ImgWithSrc, Video, StyledP}

PageAddsElement ==
    /\ page.pc \in {"loaded", "optimized"}
    /\ page.records = <<>>
    /\ page.added < MaxAdded
    /\ \E e \in AddedElements :
          page' = [page EXCEPT !.dom.body = Append(page.dom.body, e),
                               !.records = Observed(<<RecordOf(e)>>),
                               !.added = page.added + 1]
    /\ UNCHANGED nonPageVars

\* The MutationObserver callback runs on the records delivered so far.
ObserverCallback ==
    /\ page.records # <<>>
    /\ \E r \in {Deliver([dom |-> page.dom, cssStash |-> page.cssStash, out |-> <<>>,
                           lastRemoval |-> page.lastRemoval, removed |-> page.removed],
                          page.records, page.observer = "removeCSS")} :
          page' = [page EXCEPT !.dom = r.dom, !.cssStash = r.cssStash, !.records = r.out,
                               !.tick = ~page.tick,
                               !.lastRemoval = r.lastRemoval, !.removed = r.removed]
    /\ UNCHANGED nonPageVars

\* reportMetricsAndCache, the getBaseline callback: the counters go into
\* the record sent with storeMetrics.
ReportMetrics ==
    /\ page.reportDue
    /\ page.records = <<>>
    /\ page' = [page EXCEPT !.reportDue = FALSE,
                            !.stored = [sent |-> TRUE,
                                        imagesRemoved |-> page.lastRemoval.imagesRemoved,
                                        videosRemoved |-> page.lastRemoval.videosRemoved]]
    /\ UNCHANGED nonPageVars

ApplyNext ==
    \/ PageLoads
    \/ OptimizePage
    \/ ApplyStateMessage
    \/ PageAddsElement
    \/ ObserverCallback
    \/ ReportMetrics

\* The browser runs a pending observer callback.
ObserverFairness == WF_vars(ObserverCallback)

\* C24: once the page and the optimizer have stopped adding elements, the
\* observer's callback runs finitely often: from some point on no
\* mutation record is pending.
C24_ObserverQuiesces == <>[](page.records = <<>>)

\* C29: once the optimizer has been applied, whatever the applications and
\* observer runs that followed, the document has exactly one element with
\* the id compressor-fonts and exactly one with the id compressor-no-anim.
C29_MarkersStaySingle ==
    page.applied > 0 =>
        /\ Matching(page.dom, "#compressor-fonts") = 1
        /\ Matching(page.dom, "#compressor-no-anim") = 1

\* C30: applying the optimizer with CSS removal off to a document whose
\* last application also had CSS removal off leaves the stylesheet links
\* and style elements of the document as they are.
C30_RepeatedRestoreAddsNothing ==
    [][(/\ page.lastCSS = F
        /\ page'.lastCSS = F
        /\ page'.applied = page.applied + 1) =>
            /\ StylesheetLinksOf(Serialize(page'.dom)) = StylesheetLinksOf(Serialize(page.dom))
            /\ StylesOf(Serialize(page'.dom)) = StylesOf(Serialize(page.dom))]_vars

\* C32: while the last application of the optimizer had CSS removal off,
\* a run of the observer's callback removes no style element and no
\* stylesheet link from the document.
C32_ObserverFollowsSetting ==
    [][(page.lastCSS = F /\ page'.tick # page.tick) =>
            /\ StylesheetLinksOf(Serialize(page'.dom)) = StylesheetLinksOf(Serialize(page.dom))
            /\ StylesOf(Serialize(page'.dom)) = StylesOf(Serialize(page.dom))]_vars

\* The image elements of a document that the optimizer has blanked.
ImagesMutated(dom) == Len(SelectSeq(Serialize(dom), LAMBDA e : IsImg(e) /\ e.orig # U))

\* C33: the imagesRemoved and videosRemoved that reportMetricsAndCache
\* sends are the number of image elements blanked and the number of video
\* and heavy elements removed since the application it reports on started.
C33_ReportedCountsAreTotals ==
    [][(page.reportDue /\ ~page'.reportDue) =>
            /\ page'.stored.imagesRemoved = ImagesMutated(page.dom)
            /\ page'.stored.videosRemoved = page.removed]_vars

\* An optimised document holds an image that still has its source, or a
\* video.
HasUnprocessedMedia ==
    /\ page.applied > 0
    /\ \E i \in 1..Len(Serialize(page.dom)) :
          LET e == Serialize(page.dom)[i]
          IN (IsImg(e) /\ StrTruthy(e.src)) \/ IsVideo(e)

\* C34: on an optimised page every image with a source and every video
\* that is added to the document is eventually processed: its source is
\* cleared, or it is removed.
C34_AddedMediaProcessed == HasUnprocessedMedia ~> ~HasUnprocessedMedia

(***************************************************************************)
(* The toggle messages: lost toggles and the flags each message writes.    *)
(***************************************************************************)

\* Only toggleExtension messages arrive; their handlers may overlap.
ToggleExtensionNext ==
    \/ \E h \in Slots : RecvToggleExtension(h)
    \/ \E h \in Slots : ToggleExtensionCallback(h)
    \/ \E h \in Slots : ReadMerged(h)
    \/ \E h \in Slots, ok \in BOOLEAN : UpdateDnrRules(h, ok)
    \/ \E h \in Slots, tab \in BOOLEAN : BroadcastState(h, tab)
    \/ \E h \in Slots : SendResponse(h)

\* The step in which handler h writes the flag it computed.
WritesToggle(h) ==
    /\ bg[h].action = "toggleExtension"
    /\ bg[h].pc = "get_done"
    /\ bg'[h].pc = "set_done"

\* C35: with toggleExtension messages alone, the stored extensionEnabled
\* flag is inverted by the write of every handled message and changed by
\* nothing else, so after n messages it is the initial flag for even n and
\* its negation for odd n.
C35_EveryToggleInverts ==
    [][(\E h \in Slots : WritesToggle(h)) <=> extensionEnabled' = JsNot(extensionEnabled)]_vars

\* C36: the write of a toggleExtension that turns the extension on stores
\* cssRemovalEnabled = true whatever was stored; the write of one that
\* turns it off leaves cssRemovalEnabled as it was; no other step of a
\* toggleExtension handler changes either flag, and no step of a
\* toggleCSSRemoval handler changes extensionEnabled.
C36_ToggleFrame ==
    [][\A h \in Slots :
         /\ WritesToggle(h) =>
               IF extensionEnabled' = T
               THEN cssRemovalEnabled' = T
               ELSE extensionEnabled' = F /\ cssRemovalEnabled' = cssRemovalEnabled
         /\ (bg[h].action = "toggleExtension" /\ bg'[h] # bg[h] /\ ~WritesToggle(h)) =>
               UNCHANGED <<extensionEnabled, cssRemovalEnabled>>
         /\ (bg[h].action = "toggleCSSRemoval" /\ bg'[h] # bg[h]) =>
               extensionEnabled' = extensionEnabled]_vars

\* A toggleCSSRemoval has stored cssRemovalEnabled = false, and a
\* toggleExtension that found the extension off has then written: both
\* flags are true, the extension flag of the toggleCSSRemoval untouched.
C36_Witness ==
    \E h, g \in Slots :
        /\ bg[h].action = "toggleExtension" /\ bg[h].pc = "set_done"
        /\ bg[g].action = "toggleCSSRemoval" /\ bg[g].pc = "have_state"
        /\ bg[g].state = [extensionEnabled |-> F, cssRemovalEnabled |-> F]
        /\ extensionEnabled = T
        /\ cssRemovalEnabled = T

\* The continuation of handler h that its position allows.
HandlerStep(h) ==
    \/ ToggleExtensionCallback(h)
    \/ ToggleCSSRemovalCallback(h)
    \/ ReadMerged(h)
    \/ \E ok \in BOOLEAN : UpdateDnrRules(h, ok)
    \/ \E tab \in BOOLEAN : BroadcastState(h, tab)
    \/ SendResponse(h)

\* A handler that has received its message runs on: each await of the
\* handler resolves and its continuation is run.
HandlerFairness == \A h \in Slots : WF_vars(HandlerStep(h))

\* The steps of handler h in the order of the code: the write to storage,
\* the read of the state, the rule update, the notification, the response.
StorageWritten(h) ==
    \/ bg[h].pc = "idle" /\ bg'[h].pc = "set_done"
    \/ bg[h].pc = "get_done" /\ bg'[h].pc \in {"set_done", "have_state"}

RulesUpdated(h) == bg[h].pc = "have_state" /\ bg'[h].pc = "dnr_done"

Notified(h) == bg[h].pc = "dnr_done" /\ bg'[h].pc = "broadcast_done"

ResponseSent(h) == bg[h].pc = "broadcast_done" /\ bg'[h].pc = "idle"

HandlerOrder(h) ==
    \/ bg[h].pc = "idle" /\ bg'[h].pc \in {"get_done", "set_done"}
    \/ bg[h].pc = "get_done" /\ bg'[h].pc \in {"set_done", "have_state"}
    \/ bg[h].pc = "set_done" /\ bg'[h].pc = "have_state"
    \/ RulesUpdated(h)
    \/ Notified(h)
    \/ ResponseSent(h)

\* C39: every step of a handler is the next one of the order write, rule
\* update, notification, response; the notification carries the state the
\* rule update was given, which is the state read back after the write
\* (for toggleCSSRemoval the flag just written); storage changes in write
\* steps alone and the rules in rule-update steps alone; and a handler that
\* has received a message comes to its response, also after a failed rule
\* update and when no tab takes the notification.
C39_StepsInOrder ==
    /\ [][\A h \in Slots :
            /\ bg'[h] # bg[h] => HandlerOrder(h)
            /\ bg'[h].pc = "have_state" /\ bg[h].pc = "set_done" =>
                  bg'[h].state = [extensionEnabled |-> JsTruthy(extensionEnabled),
                                  cssRemovalEnabled |-> JsNotFalse(cssRemovalEnabled)]
            /\ bg'[h].pc = "have_state" /\ bg[h].pc = "get_done" =>
                  bg'[h].state.cssRemovalEnabled = cssRemovalEnabled'
            /\ RulesUpdated(h) => bg'[h].state = bg[h].state /\ bg[h].state # NoState
            /\ Notified(h) => bg[h].state \in [extensionEnabled : JsBool, cssRemovalEnabled : JsBool]
            /\ (bg'[h] # bg[h] /\ ~StorageWritten(h)) =>
                  UNCHANGED <<extensionEnabled, cssRemovalEnabled>>
            /\ (bg'[h] # bg[h] /\ ~RulesUpdated(h)) => UNCHANGED dynamicRules]_vars
    /\ \A h \in Slots : (bg[h].pc # "idle") ~> (bg[h].pc = "idle")

\* One handler goes on to its notification after a rejected rule update
\* while the other is about to respond although no tab took its
\* notification.
C39_Witness ==
    \E h, g \in Slots :
        /\ bg[h].pc = "dnr_done" /\ bg[h].dnr = "failed"
        /\ bg[g].pc = "broadcast_done" /\ ~bg[g].sent

(***************************************************************************)
(* GET /api/metrics: the metrics stored by POST /api/optimize, looked up   *)
(* under the url string of the query.                                      *)
(***************************************************************************)

\* metricsCache.get(url): the entry stored under exactly this string,
\* unless there is none or it has expired.
MetricsCacheHas(cache, url, t) ==
    /\ url \in DOMAIN cache
    /\ cache[url] # NoMetrics
    /\ ~(cache[url].t < t)

\* GET /api/metrics?url=...: 400 without a url, 404 when metricsCache has
\* nothing under the string sent, else {url, metrics}.
RecvMetrics(url) ==
    /\ CanReceive
    /\ reqCount' = reqCount + 1
    /\ LET r == [IdleRequest EXCEPT !.endpoint = "GET /api/metrics", !.id = reqCount + 1,
                                    !.url = url, !.href = UrlHref(url)]
       IN resp' = IF JsFalsy(url)
                  THEN Respond(r, 400, FALSE, NoValue, FALSE)
                  ELSE IF ~MetricsCacheHas(metricsCache, url, clock)
                  THEN Respond(r, 404, FALSE, NoValue, FALSE)
                  ELSE Respond(r, 200, FALSE,
                               [NoValue EXCEPT !.metrics = metricsCache[url].v], FALSE)
    /\ UNCHANGED <<htmlCache, metricsCache, clock, req, lastSet>>
    /\ UNCHANGED nonServerVars

\* The optimize endpoints together with the metrics endpoint.
ServerMetricsNext ==
    \/ \E e \in {"POST /api/optimize", "GET /optimize"},
          url \in RawUrls, opts \in OptionSets : RecvOptimize(e, url, opts)
    \/ \E r \in req, o \in FetchOutcomes : FetchCompletes(r, o)
    \/ \E url \in RawUrls : RecvMetrics(url)
    \/ \E t \in ServerClockReadings : ServerTick(t)

\* C40: a GET /api/metrics that follows at once on the 200 response of a
\* non-cached POST /api/optimize, with the url string of that POST, is
\* answered 200 with the metrics of that response.
C40_MetricsFoundUnderRequestUrl ==
    [][(/\ resp.endpoint = "POST /api/optimize"
        /\ resp.status = 200
        /\ ~resp.cached
        /\ resp.wrote
        /\ resp'.endpoint = "GET /api/metrics"
        /\ resp'.url = resp.url) =>
            /\ resp'.status = 200
            /\ resp'.body.metrics = resp.body.metrics]_vars

\* The state after the extension is installed.
Init ==
    /\ ToggleInit
    /\ CacheInit
    /\ ServerInit
    /\ JobInit
    /\ CalcInit
    /\ PageInit
    /\ TabInit
    /\ SnapInit
    /\ PerfInit

\* The background worker's toggle handlers.
SpecToggle == Init /\ [][ToggleNext]_vars

\* The background worker's cache handlers.
SpecCache == Init /\ [][CacheNext]_vars

\* The backend server's request handlers.
SpecServer == Init /\ [][ServerNext]_vars

\* The backend optimizer on a fetched document.
SpecOptimize == Init /\ [][JobNext]_vars

\* The Metrics records of the backend and of the content script, and their display.
SpecMetrics == Init /\ [][CalcNext]_vars

\* The content script's CSS removal and restore on a document.
SpecPage == Init /\ [][PageNext]_vars

\* The content script's start, callbacks and notifications.
SpecContent == Init /\ [][TabNext]_vars

\* The content script's snapshot builder on titles and texts.
SpecSnapshot == Init /\ [][SnapNext]_vars

\* The content script's resource classification.
SpecClassify == Init /\ [][PerfNext]_vars

\* The content script with its own steps taken fairly.
SpecContentLive == Init /\ [][TabNext]_vars /\ ScriptFairness

\* The optimizer applied to a page, with the observer.
SpecApply == Init /\ [][ApplyNext]_vars

\* The same, where a pending observer callback is eventually run.
SpecApplyLive == Init /\ [][ApplyNext]_vars /\ ObserverFairness

\* The popup toggles with overlapping handlers, without reinstallation.
SpecToggleOverlap == Init /\ [][OverlappingToggleNext]_vars

SpecToggleExtension == Init /\ [][ToggleExtensionNext]_vars

SpecToggleLive == Init /\ [][ToggleNext]_vars /\ HandlerFairness

SpecServerMetrics == Init /\ [][ServerMetricsNext]_vars

====
